---- MODULE Spec2Model ----
(***************************************************************************)
(* Straight skeleton construction of src/Math/StraightSkeleton.cpp.        *)
(*                                                                         *)
(* The Primitive type is modelled for the float instantiation by exact     *)
(* rationals <<n, d>> (d > 0, lowest terms).  Every value that occurs on   *)
(* the input family below is a dyadic rational with a small numerator, so  *)
(* the float arithmetic of the source is exact on it.  <<1, 0>> is the top *)
(* element (numeric_limits<Primitive>::max(), which absorbs every addition *)
(* the source applies to it), <<-1, 0>> the result of a negative division  *)
(* by zero and <<0, 0>> a value that is no number: IEEE NaN, and the       *)
(* result of a square root that is not rational.  A run whose next vertex  *)
(* velocity or crash time needs such a root leaves the exact domain and is *)
(* not followed further (pc = "inexact").                                  *)
(***************************************************************************)
EXTENDS Integers, Sequences, FiniteSets, TLC

\* ---------------------------------------------------------------- bounds
\* widest strip of an input polygon
MaxW == 2
\* largest y coordinate of an input polygon
MaxH == 3
\* finite maxTime values are k/2 for k in 0..MaxTimeHalves
MaxTimeHalves == 2
\* a segment soup handed to WavefrontAsVertexLoops directly has at most
\* MaxSoupSegments segments over the vertices 0..MaxSoupVertices-1
MaxSoupVertices == 3
MaxSoupSegments == 3
\* the collapse scan by itself runs over at most MaxScanEdges live edges, with
\* collapse times of -1..MaxScanTicks steps of 3/5 of epsilon
MaxScanEdges == 4
MaxScanTicks == 3
\* a soup of whole cycles handed to WavefrontAsVertexLoops lies on at most
\* MaxCycleVertices vertices
MaxCycleVertices == 4
\* the loops with two teeth are bars of the length MaxBar
MaxBar == 4

\* ------------------------------------------------------------ rationals
Abs(x) == IF x < 0 THEN -x ELSE x

Sign(x) == IF x < 0 THEN -1 ELSE IF x > 0 THEN 1 ELSE 0

RECURSIVE GCD(_, _)
GCD(a, b) == IF b = 0 THEN a ELSE GCD(b, a % b)

Rat(n, d) ==
    IF d = 0 THEN <<Sign(n), 0>>
    ELSE LET g == GCD(Abs(n), Abs(d))
             s == IF d < 0 THEN -1 ELSE 1
         IN  <<(s * n) \div g, (s * d) \div g>>

R(n) == <<n, 1>>
MaxPrim == <<1, 0>>
NaN == <<0, 0>>
IsNaN(a) == a = NaN
IsMax(a) == a = MaxPrim

RAdd(a, b) == Rat(a[1] * b[2] + b[1] * a[2], a[2] * b[2])
RSub(a, b) == Rat(a[1] * b[2] - b[1] * a[2], a[2] * b[2])
RMul(a, b) == Rat(a[1] * b[1], a[2] * b[2])
RDiv(a, b) == Rat(a[1] * b[2], a[2] * b[1])
RNeg(a) == <<-a[1], a[2]>>
RAbs(a) == <<Abs(a[1]), a[2]>>
RLt(a, b) ==
    IF IsNaN(a) \/ IsNaN(b) THEN FALSE
    ELSE IF a[2] = 0 /\ b[2] = 0 THEN a[1] < b[1]
    ELSE a[1] * b[2] < b[1] * a[2]
RGt(a, b) == RLt(b, a)
REq(a, b) == ~IsNaN(a) /\ a = b
RLe(a, b) == RLt(a, b) \/ REq(a, b)
RGe(a, b) == RLe(b, a)
RMin(a, b) == IF RLt(b, a) THEN b ELSE a
RMax(a, b) == IF RLt(a, b) THEN b ELSE a

\* integer square root, and the exact root of a rational (NaN when irrational)
RECURSIVE ISqrtFrom(_, _)
ISqrtFrom(k, r) == IF (r + 1) * (r + 1) > k THEN r ELSE ISqrtFrom(k, r + 1)
ISqrt(k) == ISqrtFrom(k, 0)
RSqrt(a) ==
    IF a[2] = 0 \/ a[1] < 0 THEN NaN
    ELSE LET rn == ISqrt(a[1])
             rd == ISqrt(a[2])
         IN  IF rn * rn = a[1] /\ rd * rd = a[2] THEN <<rn, rd>> ELSE NaN

\* GetEpsilon<float>(), the winding threshold and the separation tolerance
Epsilon == <<1, 10000>>
WindingThreshold == <<1, 1000000>>
SeparationTolerance == <<1, 1000>>

\* Equivalent(a, b, tolerance): strictly closer than the tolerance
Equivalent(a, b, tol) == RLt(RAbs(RSub(a, b)), tol)

\* -------------------------------------------------------------- vectors
Zero2 == <<R(0), R(0)>>
VAdd(a, b) == <<RAdd(a[1], b[1]), RAdd(a[2], b[2])>>
VSub(a, b) == <<RSub(a[1], b[1]), RSub(a[2], b[2])>>
VScale(a, k) == <<RMul(a[1], k), RMul(a[2], k)>>
Dot(a, b) == RAdd(RMul(a[1], b[1]), RMul(a[2], b[2]))
MagnitudeSquared(a) == Dot(a, a)
Normalize(a) ==
    LET m == RSqrt(MagnitudeSquared(a))
    IN  <<RDiv(a[1], m), RDiv(a[2], m)>>
Equivalent2(a, b, tol) == Equivalent(a[1], b[1], tol) /\ Equivalent(a[2], b[2], tol)
Equivalent3(a, b, tol) ==
    Equivalent(a[1], b[1], tol) /\ Equivalent(a[2], b[2], tol) /\ Equivalent(a[3], b[3], tol)
Truncate(a) == <<a[1], a[2]>>
Expand(a, t) == <<a[1], a[2], t>>
Inexact2(a) == IsNaN(a[1]) \/ IsNaN(a[2])
IsFiniteNumber(a) == a[2] # 0

\* ------------------------------------------------------------- geometry
\* the winding with Left and Right exchanged
CalculateWindingTypeMirrored(zero, one, two, threshold) ==
    LET sign == RSub(RMul(RSub(one[1], zero[1]), RSub(two[2], zero[2])),
                     RMul(RSub(two[1], zero[1]), RSub(one[2], zero[2])))
    IN  IF RGt(sign, threshold) THEN "Right"
        ELSE IF RLt(sign, RNeg(threshold)) THEN "Left"
        ELSE "Straight"

CalculateWindingType(zero, one, two, threshold) ==
    LET sign == RSub(RMul(RSub(one[1], zero[1]), RSub(two[2], zero[2])),
                     RMul(RSub(two[1], zero[1]), RSub(one[2], zero[2])))
    IN  IF RGt(sign, threshold) THEN "Left"
        ELSE IF RLt(sign, RNeg(threshold)) THEN "Right"
        ELSE "Straight"

\* the velocity <<x, y>> with the two assertions on it (lines 150-153)
SolvedVelocity(N0, N1, x, y) ==
    [vel |-> <<x, y>>,
     fail |-> IF ~RGt(Dot(<<x, y>>, VAdd(N0, N1)), R(0)) THEN "velocity_direction"
              ELSE IF ~(IsFiniteNumber(x) /\ IsFiniteNumber(y)) THEN "velocity_finite"
              ELSE ""]

\* the intersection of the lines 0 = xa + yb - t and 0 = xc + yd - t of the
\* normals N0 = (a, b) and N1 = (c, d) at t = 1 (lines 126-153)
VelocityOfNormals(N0, N1) ==
    LET a == N0[1]
        b == N0[2]
        c == N1[1]
        d == N1[2]
        B0 == IF RLt(d, RNeg(Epsilon)) \/ RGt(d, Epsilon)
              THEN RSub(a, RDiv(RMul(b, c), d)) ELSE R(0)
        B1 == IF RLt(c, RNeg(Epsilon)) \/ RGt(c, Epsilon)
              THEN RSub(b, RDiv(RMul(a, d), c)) ELSE R(0)
        x0 == RDiv(RSub(R(1), RDiv(b, d)), B0)
        y1 == RDiv(RSub(R(1), RDiv(a, c)), B1)
    IN  IF Inexact2(N0) \/ Inexact2(N1) THEN [vel |-> <<NaN, NaN>>, fail |-> ""]
        ELSE IF RGt(RAbs(B0), RAbs(B1))
        THEN IF RGt(B0, RNeg(Epsilon)) /\ RLt(B0, Epsilon) THEN [vel |-> Zero2, fail |-> ""]
             ELSE SolvedVelocity(N0, N1, x0, RDiv(RSub(R(1), RMul(x0, c)), d))
        ELSE IF RGt(B1, RNeg(Epsilon)) /\ RLt(B1, Epsilon) THEN [vel |-> Zero2, fail |-> ""]
             ELSE SolvedVelocity(N0, N1, RDiv(RSub(R(1), RMul(y1, d)), c), y1)

\* [vel, fail]: the velocity of vex1, and the assertion that failed on the way
CalculateVertexVelocity(vex0, vex1, vex2) ==
    LET t0 == VSub(vex1, vex0)
        t1 == VSub(vex2, vex1)
        none == [vel |-> Zero2, fail |-> ""]
    IN  IF Equivalent2(vex0, vex2, Epsilon) THEN none
        ELSE IF Equivalent2(t0, Zero2, Epsilon) THEN none
        ELSE IF Equivalent2(t1, Zero2, Epsilon) THEN none
        ELSE VelocityOfNormals(Normalize(<<RNeg(t0[2]), t0[1]>>),
                               Normalize(<<RNeg(t1[2]), t1[1]>>))

\* ------------------------------------------------------------ the graph
\* ~0u as a face or vertex index
NoFace == -1
NoIndex == -1
\* a skeleton vertex id: a Steiner vertex index, BoundaryVertexFlag|v, or ~0u
SteinerId(i) == [boundary |-> FALSE, index |-> i]
BoundaryId(v) == [boundary |-> TRUE, index |-> v]
NoId == [boundary |-> TRUE, index |-> NoIndex]

Vertex(position, skeletonVertexId, initialTime, velocity) ==
    [position |-> position, skeletonVertexId |-> skeletonVertexId,
     initialTime |-> initialTime, velocity |-> velocity]
Segment(head, tail, leftFace, rightFace) ==
    [head |-> head, tail |-> tail, leftFace |-> leftFace, rightFace |-> rightFace]

\* fail: the assertions whose condition was false, in order of occurrence (a
\* debug build stops at the first); ub: the first undefined behaviour; inexact:
\* an irrational root was needed, after which nothing more is recorded
Range(s) == {s[i] : i \in 1..Len(s)}
Check(m, cond, name) ==
    IF cond \/ name \in Range(m.fail) \/ m.ub # "" \/ m.inexact THEN m
    ELSE [m EXCEPT !.fail = Append(@, name)]
Undefined(m, cond, name) ==
    IF ~cond \/ m.ub # "" \/ m.inexact THEN m ELSE [m EXCEPT !.ub = name]

\* the 0-based element i of a sequence
At(s, i) == s[i + 1]

\* the boundary edge with head and tail exchanged
BoundaryEdgeReversed(n, v) == Segment(v, (v + 1) % n, NoFace, v)

\* "each segment of the polygon becomes an edge segment in the graph"
BoundaryEdge(n, v) == Segment((v + 1) % n, v, NoFace, v)

\* the graph of a loop whose vertex velocities are velocities[v + 1] (lines
\* 165-200)
GraphOfVertexLoop(pts, velocities) ==
    LET n == Len(pts)
        prev(v) == (v + n - 1) % n
        next(v) == (v + 1) % n
        vel(v) == At(velocities, v)
        velFail(v) == IF vel(v).fail # "" THEN vel(v).fail
                      ELSE IF Equivalent2(vel(v).vel, Zero2, Epsilon)
                           THEN "builder_velocity_nonzero" ELSE ""
        bad == {v \in 0..(n - 1) : velFail(v) # ""}
        firstBad == CHOOSE v \in bad : \A w \in bad : v <= w
        reflex == SelectSeq([i \in 1..n |-> i - 1],
                            LAMBDA v : CalculateWindingType(At(pts, prev(v)), At(pts, v),
                                           At(pts, next(v)), WindingThreshold) = "Right")
    IN  [vertices |->
            [i \in 1..n |-> Vertex(pts[i], BoundaryId(i - 1), R(0), vel(i - 1).vel)]
            \o [k \in 1..Len(reflex) |-> Vertex(At(pts, reflex[k]), BoundaryId(reflex[k]), R(0), Zero2)],
         wavefrontEdges |-> [i \in 1..n |-> BoundaryEdge(n, i - 1)],
         motorcycleSegments |->
            [k \in 1..Len(reflex) |-> Segment(reflex[k], n + k - 1, prev(reflex[k]), reflex[k])],
         steinerVertices |-> <<>>,
         faces |-> [i \in 1..n |-> <<>>],
         unplacedEdges |-> <<>>,
         fail |-> IF n < 2 THEN <<"builder_size">>
                  ELSE IF bad # {} THEN <<velFail(firstBad)>> ELSE <<>>,
         ub |-> "",
         inexact |-> FALSE]

BuildGraphFromVertexLoop(pts) ==
    GraphOfVertexLoop(pts,
        [i \in 1..Len(pts) |->
            CalculateVertexVelocity(At(pts, (i - 1 + Len(pts) - 1) % Len(pts)), pts[i],
                                    At(pts, i % Len(pts)))])

\* ---------------------------------------------------------- event times
\* the collapse time with the separation taken from p1 to p0
CalculateCollapseTimeBackwards(p0, v0, p1, v1) ==
    LET d0x == RSub(v0[1], v1[1])
        d0y == RSub(v0[2], v1[2])
        tx == RDiv(RSub(p0[1], p1[1]), d0x)
        ySep == RSub(RSub(RAdd(p0[2], RMul(tx, v0[2])), p1[2]), RMul(tx, v1[2]))
        ty == RDiv(RSub(p0[2], p1[2]), d0y)
        xSep == RSub(RSub(RAdd(p0[1], RMul(ty, v0[1])), p1[1]), RMul(ty, v1[1]))
    IN  IF RGt(RAbs(d0x), RAbs(d0y))
        THEN IF RLt(RAbs(d0x), Epsilon) THEN MaxPrim
             ELSE IF RLt(RAbs(ySep), SeparationTolerance) THEN tx ELSE MaxPrim
        ELSE IF RLt(RAbs(d0y), Epsilon) THEN MaxPrim
             ELSE IF RLt(RAbs(xSep), SeparationTolerance) THEN ty ELSE MaxPrim

\* CalculateCollapseTime(p0, v0, p1, v1)
CalculateCollapseTimeOfPoints(p0, v0, p1, v1) ==
    LET d0x == RSub(v0[1], v1[1])
        d0y == RSub(v0[2], v1[2])
        tx == RDiv(RSub(p1[1], p0[1]), d0x)
        ySep == RSub(RSub(RAdd(p0[2], RMul(tx, v0[2])), p1[2]), RMul(tx, v1[2]))
        ty == RDiv(RSub(p1[2], p0[2]), d0y)
        xSep == RSub(RSub(RAdd(p0[1], RMul(ty, v0[1])), p1[1]), RMul(ty, v1[1]))
    IN  IF RGt(RAbs(d0x), RAbs(d0y))
        THEN IF RLt(RAbs(d0x), Epsilon) THEN MaxPrim
             ELSE IF RLt(RAbs(ySep), SeparationTolerance) THEN tx ELSE MaxPrim
        ELSE IF RLt(RAbs(d0y), Epsilon) THEN MaxPrim
             ELSE IF RLt(RAbs(xSep), SeparationTolerance) THEN ty ELSE MaxPrim

\* CalculateCollapseTime(const Vertex& v0, const Vertex& v1)
CalculateCollapseTime(v0, v1) ==
    IF Equivalent2(v0.velocity, Zero2, Epsilon) THEN MaxPrim
    ELSE IF Equivalent2(v1.velocity, Zero2, Epsilon) THEN MaxPrim
    ELSE LET calcTime == RMin(v0.initialTime, v1.initialTime)
             p0 == VAdd(v0.position, VScale(v0.velocity, RSub(calcTime, v0.initialTime)))
             p1 == VAdd(v1.position, VScale(v1.velocity, RSub(calcTime, v1.initialTime)))
         IN  RAdd(calcTime, CalculateCollapseTimeOfPoints(p0, v0.velocity, p1, v1.velocity))

\* The assertion of PositionAtTime (finite result) cannot fail on the finite
\* positions, velocities and times of the exact domain.
PositionAtTime(v, time) ==
    VAdd(v.position, VScale(v.velocity, RSub(time, v.initialTime)))

ClampedPositionAtTime(v, time) ==
    IF Equivalent2(v.velocity, Zero2, Epsilon) THEN Expand(v.position, v.initialTime)
    ELSE Expand(PositionAtTime(v, time), time)

\* one candidate time t of CalculateCrashTime against edge e (lines 369-381)
CrashCandidate(best, t, head, tail, v, e) ==
    IF RGt(t, best.time) \/ RLe(t, RMax(head.initialTime, tail.initialTime)) THEN best
    ELSE LET P0 == PositionAtTime(head, t)
             P1 == PositionAtTime(tail, t)
             P2 == PositionAtTime(v, t)
         IN  IF \/ RGt(Dot(VSub(P1, P0), VSub(P2, P0)), R(0))
                   /\ RGt(Dot(VSub(P0, P1), VSub(P2, P1)), R(0))
                \/ Equivalent2(P0, P2, Epsilon)
                \/ Equivalent2(P1, P2, Epsilon)
             THEN [best EXCEPT !.time = t, !.edgeSegment = e]
             ELSE best

\* the two roots of a*t*t + b*t + c, Q the root of its discriminant (lines
\* 357-381)
CrashAtRoots(best, head, tail, v, e, calcTime, a, b, Q) ==
    IF IsNaN(Q) THEN [best EXCEPT !.inexact = TRUE]
    ELSE CrashCandidate(
             CrashCandidate(best, RAdd(calcTime, RDiv(RAdd(RNeg(b), Q), RMul(R(2), a))),
                            head, tail, v, e),
             RAdd(calcTime, RDiv(RSub(RNeg(b), Q), RMul(R(2), a))), head, tail, v, e)

\* the quadratic a*t*t + b*t + c and its discriminant K (lines 349-357)
CrashQuadratic(best, head, tail, v, e, calcTime, a, b, c) ==
    LET K == RSub(RMul(b, b), RMul(RMul(R(4), a), c))
    IN  IF Equivalent(a, R(0), Epsilon) THEN best
        ELSE IF RLt(K, R(0)) THEN best
        ELSE CrashAtRoots(best, head, tail, v, e, calcTime, a, b, RSqrt(K))

\* the three vertices at calcTime: p0, p1 of the edge and p2 of the
\* motorcycle (lines 314-347)
CrashOfPositions(best, head, tail, v, e, calcTime, p0, p1, p2) ==
    LET v0 == head.velocity
        v1 == tail.velocity
        v2 == v.velocity
    IN  CrashQuadratic(best, head, tail, v, e, calcTime,
            RSub(RMul(RSub(v1[1], v0[1]), RSub(v2[2], v0[2])),
                 RMul(RSub(v2[1], v0[1]), RSub(v1[2], v0[2]))),
            RSub(RSub(RAdd(RMul(RSub(p1[1], p0[1]), RSub(v2[2], v0[2])),
                           RMul(RSub(v1[1], v0[1]), RSub(p2[2], p0[2]))),
                      RMul(RSub(p2[1], p0[1]), RSub(v1[2], v0[2]))),
                 RMul(RSub(v2[1], v0[1]), RSub(p1[2], p0[2]))),
            RSub(RMul(RSub(p1[1], p0[1]), RSub(p2[2], p0[2])),
                 RMul(RSub(p2[1], p0[1]), RSub(p1[2], p0[2]))))

\* the body of the loop of CalculateCrashTime for edge e (lines 308-382)
CrashWithEdge(m, v, e, best) ==
    LET seg == At(m.wavefrontEdges, e)
        head == At(m.vertices, seg.head)
        tail == At(m.vertices, seg.tail)
        calcTime == RMax(RMax(head.initialTime, tail.initialTime), v.initialTime)
    IN  CrashOfPositions(best, head, tail, v, e, calcTime, PositionAtTime(head, calcTime),
                         PositionAtTime(tail, calcTime), PositionAtTime(v, calcTime))

RECURSIVE CrashTimeFrom(_, _, _, _)
CrashTimeFrom(m, v, e, best) ==
    IF e >= Len(m.wavefrontEdges) \/ best.inexact THEN best
    ELSE CrashTimeFrom(m, v, e + 1, CrashWithEdge(m, v, e, best))

\* [time, edgeSegment], and inexact: some root taken on the way is irrational
CalculateCrashTime(m, v) ==
    CrashTimeFrom(m, v, 0, [time |-> MaxPrim, edgeSegment |-> NoIndex, inexact |-> FALSE])

\* ------------------------------------------------------- graph utilities
MaxOf(S) == CHOOSE x \in S : \A y \in S : y <= x

\* [first, second]: 0-based indices into edges, NoIndex for nullptr; fail: one
\* of the two assertions failed
FindInAndOut(edges, pivotVertex) ==
    LET ins == {i \in 1..Len(edges) : edges[i].head = pivotVertex}
        outs == {i \in 1..Len(edges) : edges[i].head # pivotVertex /\ edges[i].tail = pivotVertex}
    IN  [first |-> IF ins = {} THEN NoIndex ELSE MaxOf(ins) - 1,
         second |-> IF outs = {} THEN NoIndex ELSE MaxOf(outs) - 1,
         fail |-> Cardinality(ins) > 1 \/ Cardinality(outs) > 1]

IsFrozen(v) == Equivalent2(v.velocity, Zero2, R(0))

\* a freeze that leaves the vertex its velocity
FreezeInPlaceMoving(m, v, atTime) ==
    [m EXCEPT !.vertices[v + 1] =
        Vertex(PositionAtTime(At(m.vertices, v), atTime), NoId, atTime,
               At(m.vertices, v).velocity)]

FreezeInPlace(m, v, atTime) ==
    LET m1 == Check(m, atTime # R(0), "freeze_time_nonzero")
        vert == At(m.vertices, v)
    IN  [m1 EXCEPT !.vertices[v + 1] =
            Vertex(PositionAtTime(vert, atTime), NoId, atTime, Zero2)]

\* a vertex list that is appended to without the search for an equivalent
AddSteinerVertexAlways(m, vertex) ==
    [m |-> [m EXCEPT !.steinerVertices = Append(@, vertex)], id |-> Len(m.steinerVertices)]

\* [m, id]: the skeleton with the vertex added, and its index
AddSteinerVertex(m, vertex) ==
    LET sv == m.steinerVertices
        m1 == Check(m, vertex[3] # R(0), "steiner_time_nonzero")
        m2 == Check(m1, \A k \in 1..3 : IsFiniteNumber(vertex[k]), "steiner_finite")
        existing == {i \in 1..Len(sv) : Equivalent3(sv[i], vertex, Epsilon)}
        test == {i \in 1..Len(sv) : Equivalent2(Truncate(sv[i]), Truncate(vertex), Epsilon)}
        first == CHOOSE i \in existing : \A j \in existing : i <= j
    IN  IF existing # {} THEN [m |-> m2, id |-> first - 1]
        ELSE [m |-> [Check(m2, test = {}, "steiner_same_position")
                        EXCEPT !.steinerVertices = Append(sv, vertex)],
              id |-> Len(sv)]

Edge(head, tail, type) == [head |-> head, tail |-> tail, type |-> type]

SameEnds(dst, edge) ==
    {i \in 1..Len(dst) : dst[i].head = edge.head /\ dst[i].tail = edge.tail}

AddUnique(dst, edge) == IF SameEnds(dst, edge) = {} THEN Append(dst, edge) ELSE dst

\* AddUnique on the edge list of a face, or on _unplacedEdges for face ~0u
AddUniqueTo(m, face, edge) ==
    LET dst == IF face # NoFace THEN At(m.faces, face) ELSE m.unplacedEdges
        same == SameEnds(dst, edge)
        existing == CHOOSE i \in same : \A j \in same : i <= j
        m1 == Check(m, same = {} \/ dst[existing].type = edge.type, "addunique_type")
    IN  IF face # NoFace THEN [m1 EXCEPT !.faces[face + 1] = AddUnique(dst, edge)]
        ELSE [m1 EXCEPT !.unplacedEdges = AddUnique(dst, edge)]

AddEdge(m, headVertex, tailVertex, leftEdge, rightEdge, type) ==
    IF headVertex = tailVertex THEN m
    ELSE AddUniqueTo(AddUniqueTo(m, rightEdge, Edge(headVertex, tailVertex, type)),
                     leftEdge, Edge(tailVertex, headVertex, type))

\* the path of a vertex without a skeleton vertex starts at the Steiner
\* vertex a just added for it (lines 1027-1030)
AddEdgeFromSteinerVertex(a, finalVertId, leftFace, rightFace) ==
    AddEdge(a.m, finalVertId, SteinerId(a.id), leftFace, rightFace, "VertexPath")

AddEdgeForVertexPath(m, v, finalVertId) ==
    LET vert == At(m.vertices, v)
        inAndOut == FindInAndOut(m.wavefrontEdges, v)
        m0 == Check(m, ~inAndOut.fail, "find_in_and_out")
        leftFace == IF inAndOut.first # NoIndex
                    THEN At(m.wavefrontEdges, inAndOut.first).rightFace ELSE NoFace
        rightFace == IF inAndOut.second # NoIndex
                     THEN At(m.wavefrontEdges, inAndOut.second).rightFace ELSE NoFace
        id == vert.skeletonVertexId
        q == id.index
        n == Len(m.faces)
    IN  IF id # NoId
        THEN AddEdge(IF id.boundary
                     THEN AddEdge(m0, finalVertId, id, (q + n - 1) % n, q, "VertexPath")
                     ELSE m0,
                     finalVertId, id, leftFace, rightFace, "VertexPath")
        ELSE AddEdgeFromSteinerVertex(
                 AddSteinerVertex(m0, Expand(vert.position, vert.initialTime)),
                 finalVertId, leftFace, rightFace)

\* ------------------------------------------------------ candidate scans
\* the collapse time of edge e against the best so far (lines 486-495)
CollapseCandidate(st, lastTime, e, collapseTime) ==
    LET st1 == Check(st, RGe(collapseTime, lastTime), "collapse_time_ge_last")
        entry == [time |-> collapseTime, edge |-> e]
    IN  IF RLt(collapseTime, R(0)) THEN st
        ELSE IF RLt(collapseTime, RSub(st.bestCollapseTime, Epsilon))
             THEN [st1 EXCEPT !.bestCollapse = <<entry>>, !.bestCollapseTime = collapseTime]
        ELSE IF RLt(collapseTime, RAdd(st.bestCollapseTime, Epsilon))
             THEN [st1 EXCEPT !.bestCollapse = Append(@, entry),
                              !.bestCollapseTime = RMin(collapseTime, @)]
        ELSE st1

\* the body of the collapse scan for edge e (lines 483-495)
CollapseScanEdge(m, lastTime, e, st) ==
    CollapseCandidate(st, lastTime, e,
        CalculateCollapseTime(At(m.vertices, At(m.wavefrontEdges, e).head),
                              At(m.vertices, At(m.wavefrontEdges, e).tail)))

RECURSIVE CollapseScanFrom(_, _, _, _)
CollapseScanFrom(m, lastTime, e, st) ==
    IF e >= Len(m.wavefrontEdges) \/ st.inexact THEN st
    ELSE CollapseScanFrom(m, lastTime, e + 1, CollapseScanEdge(m, lastTime, e, st))

\* the candidates left as the scan collected them
RemoveLateCollapsesNothing(st) == st

\* the remove_if after the collapse scan (lines 500-505)
RemoveLateCollapses(st) ==
    [st EXCEPT !.bestCollapse =
        SelectSeq(@, LAMBDA c : RLt(c.time, RAdd(st.bestCollapseTime, Epsilon)))]

\* the collapse scan (lines 480-505)
CollapseScan(m, lastTime) ==
    RemoveLateCollapses(
        CollapseScanFrom(m, lastTime, 0,
            [bestCollapseTime |-> MaxPrim, bestCollapse |-> <<>>,
             bestMotorcycleCrashTime |-> MaxPrim, bestMotorcycleCrash |-> <<>>,
             inexact |-> m.inexact, fail |-> m.fail, ub |-> m.ub]))

\* the crash of motorcycle k against the best so far (lines 516-535)
CrashScanCandidate(st, lastTime, k, head, crashEvent) ==
    LET st1 == Check(st, head.initialTime = R(0), "motorcycle_initial_time")
        st2 == Check(st1, RGe(crashEvent.time, lastTime), "crash_time_ge_last")
        entry == [event |-> crashEvent, motorcycle |-> k]
    IN  IF Equivalent2(head.velocity, Zero2, Epsilon) THEN st
        ELSE IF crashEvent.inexact THEN [st1 EXCEPT !.inexact = TRUE]
        ELSE IF RLt(crashEvent.time, R(0)) THEN st1
        ELSE IF ~RLt(crashEvent.time, RAdd(st.bestCollapseTime, Epsilon)) THEN st2
        ELSE IF RLt(crashEvent.time, RSub(st.bestMotorcycleCrashTime, Epsilon))
             THEN [st2 EXCEPT !.bestMotorcycleCrash = <<entry>>,
                              !.bestMotorcycleCrashTime = crashEvent.time]
        ELSE IF RLt(crashEvent.time, RAdd(st.bestMotorcycleCrashTime, Epsilon))
             THEN [st2 EXCEPT !.bestMotorcycleCrash = Append(@, entry),
                              !.bestMotorcycleCrashTime = RMin(crashEvent.time, @)]
        ELSE st2

\* the body of the crash scan for motorcycle k (lines 513-535)
CrashScanMotorcycle(m, lastTime, k, st) ==
    CrashScanCandidate(st, lastTime, k, At(m.vertices, At(m.motorcycleSegments, k).head),
        CalculateCrashTime(m, At(m.vertices, At(m.motorcycleSegments, k).head)))

RECURSIVE CrashScanFrom(_, _, _, _)
CrashScanFrom(m, lastTime, k, st) ==
    IF k >= Len(m.motorcycleSegments) \/ st.inexact THEN st
    ELSE CrashScanFrom(m, lastTime, k + 1, CrashScanMotorcycle(m, lastTime, k, st))

\* an iteration that looks for collapses only
FindNextEventCollapsesOnly(m, lastTime) == CollapseScan(m, lastTime)

\* both scans of one iteration of the event loop (lines 480-536)
FindNextEvent(m, lastTime) == CrashScanFrom(m, lastTime, 0, CollapseScan(m, lastTime))

\* ------------------------------------------------------ motorcycle crash
\* an erase that erases nothing
RemoveAtNothing(s, i) == s

\* an erase of the first element, whatever the index
RemoveAtFront(s, i) == Tail(s)

\* vector::erase of the element at the 0-based index i
RemoveAt(s, i) == SubSeq(s, 1, i) \o SubSeq(s, i + 2, Len(s))

Half3(a, b) == <<RDiv(RAdd(a[1], b[1]), R(2)), RDiv(RAdd(a[2], b[2]), R(2)),
                 RDiv(RAdd(a[3], b[3]), R(2))>>

CheckVelocity(m, vel) ==
    IF Inexact2(vel.vel) THEN [m EXCEPT !.inexact = TRUE]
    ELSE Check(m, vel.fail = "", vel.fail)

\* the wavefront edge that closes the loop after tout or tin is erased
\* (lines 587-595 and 628-635)
ClosingEdge(edges, head, tail, existingHead, existingTail) ==
    LET found == {i \in 1..Len(edges) :
                    edges[i].head = existingHead /\ edges[i].tail = existingTail}
        existing == edges[CHOOSE i \in found : \A j \in found : i <= j]
    IN  IF found # {} THEN Segment(head, tail, existing.rightFace, existing.leftFace)
        ELSE Segment(head, tail, NoFace, NoFace)

\* the closing edge pushed twice
CloseWavefrontTwice(erased, head, tail) ==
    IF head # tail THEN Append(Append(erased, ClosingEdge(erased, head, tail, tail, head)),
                               ClosingEdge(erased, head, tail, tail, head))
    ELSE erased

\* the wavefront edges erased are closed again from head to tail, unless the
\* two are one vertex (lines 586-600 and 627-640)
CloseWavefront(erased, head, tail) ==
    IF head # tail THEN Append(erased, ClosingEdge(erased, head, tail, tail, head))
    ELSE erased

\* the new vertex of a split edge, with its velocity (lines 601-603 and
\* 641-643)
AddCrashVertex(m, crashPt, crashPtSkeleton, calcTime, vel) ==
    [CheckVelocity(m, vel) EXCEPT
        !.vertices = Append(@, Vertex(crashPt, SteinerId(crashPtSkeleton),
                                      calcTime, vel.vel))]

\* no volume on the tout side: the two paths end at the Steiner vertex a just
\* added, and tout is erased (lines 576-596)
CollapseToutSide(a, toutIndex, tout, crashSegment, crashPtSkeleton) ==
    [AddEdgeForVertexPath(
         AddEdgeForVertexPath(
             AddEdge(a.m, SteinerId(a.id), SteinerId(crashPtSkeleton),
                     crashSegment.rightFace, tout.rightFace, "VertexPath"),
             tout.head, SteinerId(a.id)),
         crashSegment.tail, SteinerId(a.id))
     EXCEPT !.wavefrontEdges =
                CloseWavefront(RemoveAt(@, toutIndex), tout.head, crashSegment.tail)]

\* "is there volume on the tout side?" (lines 566-604)
CrashToutSide(m, motor, crashSegment, crashPt, crashPtSkeleton, calcTime) ==
    LET inAndOut == FindInAndOut(m.wavefrontEdges, motor.head)
        m0 == Check(Check(m, ~inAndOut.fail, "find_in_and_out"),
                    inAndOut.second # NoIndex, "tout")
        tout == At(m.wavefrontEdges, inAndOut.second)
        v0 == ClampedPositionAtTime(At(m.vertices, crashSegment.tail), calcTime)
        v2 == ClampedPositionAtTime(At(m.vertices, tout.head), calcTime)
        \* the crash splits the edge
        newVertex == Len(m.vertices)
    IN  IF m.ub # "" \/ m.inexact THEN m
        ELSE IF inAndOut.second = NoIndex THEN Undefined(m0, TRUE, "tout_null")
        ELSE IF tout.head = crashSegment.tail \/ Equivalent3(v0, v2, Epsilon)
        THEN \* no longer need crashSegment or tout
             CollapseToutSide(
                 AddSteinerVertex(
                     Check(m0, crashSegment.leftFace = NoFace /\ tout.leftFace = NoFace,
                           "tout_left_face"),
                     Half3(v0, v2)),
                 inAndOut.second, tout, crashSegment, crashPtSkeleton)
        ELSE AddCrashVertex(
                 [m0 EXCEPT !.wavefrontEdges =
                     Append([@ EXCEPT ![inAndOut.second + 1].tail = newVertex],
                            Segment(newVertex, crashSegment.tail,
                                    crashSegment.leftFace, crashSegment.rightFace))],
                 crashPt, crashPtSkeleton, calcTime,
                 CalculateVertexVelocity(Truncate(v0), crashPt, Truncate(v2)))

\* no volume on the tin side: the two paths end at the Steiner vertex a just
\* added, and tin is erased (lines 616-636)
CollapseTinSide(a, tinIndex, tin, crashSegment, crashPtSkeleton) ==
    [AddEdgeForVertexPath(
         AddEdgeForVertexPath(
             AddEdge(a.m, SteinerId(a.id), SteinerId(crashPtSkeleton),
                     tin.rightFace, crashSegment.rightFace, "VertexPath"),
             tin.tail, SteinerId(a.id)),
         crashSegment.head, SteinerId(a.id))
     EXCEPT !.wavefrontEdges =
                CloseWavefront(RemoveAt(@, tinIndex), crashSegment.head, tin.tail)]

\* "is there volume on the tin side?" (lines 607-644)
CrashTinSide(m, motor, crashSegment, crashPt, crashPtSkeleton, calcTime) ==
    LET inAndOut == FindInAndOut(m.wavefrontEdges, motor.head)
        m0 == Check(Check(m, ~inAndOut.fail, "find_in_and_out"),
                    inAndOut.first # NoIndex, "tin")
        tin == At(m.wavefrontEdges, inAndOut.first)
        v0 == ClampedPositionAtTime(At(m.vertices, tin.tail), calcTime)
        v2 == ClampedPositionAtTime(At(m.vertices, crashSegment.head), calcTime)
        \* the crash splits the edge
        newVertex == Len(m.vertices)
    IN  IF m.ub # "" \/ m.inexact THEN m
        ELSE IF inAndOut.first = NoIndex THEN Undefined(m0, TRUE, "tin_null")
        ELSE IF tin.tail = crashSegment.head \/ Equivalent3(v0, v2, Epsilon)
        THEN \* no longer need crashSegment or tin
             CollapseTinSide(
                 AddSteinerVertex(
                     Check(m0, crashSegment.leftFace = NoFace /\ tin.leftFace = NoFace,
                           "tin_left_face"),
                     Half3(v0, v2)),
                 inAndOut.first, tin, crashSegment, crashPtSkeleton)
        ELSE AddCrashVertex(
                 [m0 EXCEPT !.wavefrontEdges =
                     Append([@ EXCEPT ![inAndOut.first + 1].head = newVertex],
                            Segment(crashSegment.head, newVertex,
                                    crashSegment.leftFace, crashSegment.rightFace))],
                 crashPt, crashPtSkeleton, calcTime,
                 CalculateVertexVelocity(Truncate(v0), crashPt, Truncate(v2)))

\* the end of the crash branch: the crashed edge in its old form is removed,
\* the motorcycle's path is written, its head frozen and the motorcycle erased
\* (lines 646-663)
RetireMotorcycle(m, motor, crashSegment, crashPtSkeleton, time, motorcycle) ==
    LET m5 == [m EXCEPT !.wavefrontEdges =
                  SelectSeq(@, LAMBDA x : ~(x.head = crashSegment.head
                                            /\ x.tail = crashSegment.tail))]
        anchor == At(m5.vertices, motor.tail).skeletonVertexId
    IN  IF m.ub # "" \/ m.inexact THEN m
        ELSE [FreezeInPlace(AddEdge(Check(m5, anchor # NoId, "motorcycle_anchor"),
                                    SteinerId(crashPtSkeleton), anchor,
                                    motor.leftFace, motor.rightFace, "VertexPath"),
                            motor.head, time)
              EXCEPT !.motorcycleSegments = RemoveAt(@, motorcycle)]

\* the crash at the Steiner vertex a just added for it (lines 563-663)
CrashAtSteinerVertex(a, motor, crashSegment, crashPt, time, motorcycle) ==
    RetireMotorcycle(
        CrashTinSide(CrashToutSide(a.m, motor, crashSegment, crashPt, a.id, time),
                     motor, crashSegment, crashPt, a.id, time),
        motor, crashSegment, a.id, time, motorcycle)

\* the crash branch of the event loop (lines 543-663)
ProcessCrash(m, bestMotorcycleCrash) ==
    LET crashEvent == bestMotorcycleCrash[1].event
        motor == At(m.motorcycleSegments, bestMotorcycleCrash[1].motorcycle)
        m2 == Check(Check(m, Len(bestMotorcycleCrash) = 1, "single_crash"),
                    crashEvent.edgeSegment # NoIndex, "crash_edge_segment")
        crashPt == PositionAtTime(At(m.vertices, motor.head), crashEvent.time)
    IN  IF crashEvent.edgeSegment = NoIndex THEN Undefined(m2, TRUE, "crash_edge_null")
        ELSE CrashAtSteinerVertex(
                 AddSteinerVertex(m2, Expand(crashPt, crashEvent.time)), motor,
                 At(m.wavefrontEdges, crashEvent.edgeSegment), crashPt, crashEvent.time,
                 bestMotorcycleCrash[1].motorcycle)

\* --------------------------------------------------------- edge collapse
MinOf(S) == CHOOSE x \in S : \A y \in S : x <= y

CollapsingEdge(m, bestCollapse, c) == At(m.wavefrontEdges, bestCollapse[c].edge)

\* "go back as far as possible, from tail to tail" (lines 696-706); g is a
\* record [m, collapseGroups], next the group being built
RECURSIVE SearchTail(_, _, _, _)
SearchTail(g, bestCollapse, next, searchingTail) ==
    LET hits == {k \in 1..Len(bestCollapse) :
                    CollapsingEdge(g.m, bestCollapse, k).head = searchingTail}
        i == MinOf(hits)
    IN  IF hits = {} \/ g.collapseGroups[i] = next
        THEN [g EXCEPT !.searching = searchingTail]
        ELSE SearchTail([g EXCEPT !.m = Check(@, g.collapseGroups[i] = NoIndex, "group_free"),
                                  !.collapseGroups[i] = next],
                        bestCollapse, next, CollapsingEdge(g.m, bestCollapse, i).tail)

\* no search forward from the head
SearchHeadNowhere(g, bestCollapse, next, searchingHead) ==
    [g EXCEPT !.searching = searchingHead]

\* "also go forward head to head" (lines 709-719)
RECURSIVE SearchHead(_, _, _, _)
SearchHead(g, bestCollapse, next, searchingHead) ==
    LET hits == {k \in 1..Len(bestCollapse) :
                    CollapsingEdge(g.m, bestCollapse, k).tail = searchingHead}
        i == MinOf(hits)
    IN  IF hits = {} \/ g.collapseGroups[i] = next
        THEN [g EXCEPT !.searching = searchingHead]
        ELSE SearchHead([g EXCEPT !.m = Check(@, g.collapseGroups[i] = NoIndex, "group_free"),
                                  !.collapseGroups[i] = next],
                        bestCollapse, next, CollapsingEdge(g.m, bestCollapse, i).head)

\* a group found from tail g1.searching to head g2.searching (lines 720-722)
AddCollapseGroup(g1, g2) ==
    [g2 EXCEPT !.collapseGroupInfos =
        Append(@, [head |-> g2.searching, tail |-> g1.searching, newVertex |-> NoIndex])]

\* the group next around edge c, g1 the search from its tail (lines 693-722)
CollapseGroupAround(g1, bestCollapse, next, searchingHead) ==
    AddCollapseGroup(g1, SearchHead(g1, bestCollapse, next, searchingHead))

\* the separation into collapse groups (lines 686-723)
RECURSIVE CollapseGroupsFrom(_, _, _)
CollapseGroupsFrom(g, bestCollapse, c) ==
    IF c > Len(bestCollapse) THEN g
    ELSE IF g.collapseGroups[c] # NoIndex THEN CollapseGroupsFrom(g, bestCollapse, c + 1)
    ELSE CollapseGroupsFrom(
             CollapseGroupAround(
                 SearchTail([g EXCEPT !.collapseGroups[c] = Len(g.collapseGroupInfos)],
                            bestCollapse, Len(g.collapseGroupInfos),
                            CollapsingEdge(g.m, bestCollapse, c).tail),
                 bestCollapse, Len(g.collapseGroupInfos),
                 CollapsingEdge(g.m, bestCollapse, c).head),
             bestCollapse, c + 1)

\* sum of the end points of the edges of a group at the collapse time
RECURSIVE SumEnds(_, _, _, _)
SumEnds(m, bestCollapse, members, time) ==
    IF members = <<>> THEN Zero2
    ELSE LET seg == CollapsingEdge(m, bestCollapse, Head(members))
         IN  VAdd(VAdd(PositionAtTime(At(m.vertices, seg.head), time),
                       PositionAtTime(At(m.vertices, seg.tail), time)),
                  SumEnds(m, bestCollapse, Tail(members), time))

\* the skeleton edges and the freezing of the edges of a group (lines 761-770)
RECURSIVE ConnectGroup(_, _, _, _, _)
ConnectGroup(m, bestCollapse, members, collisionVertId, time) ==
    IF members = <<>> \/ m.ub # "" THEN m
    ELSE LET seg == CollapsingEdge(m, bestCollapse, Head(members))
             m1 == AddEdgeForVertexPath(m, seg.head, collisionVertId)
             m2 == AddEdgeForVertexPath(m1, seg.tail, collisionVertId)
             m3 == FreezeInPlace(m2, seg.tail, time)
             m4 == FreezeInPlace(m3, seg.head, time)
         IN  ConnectGroup(m4, bestCollapse, Tail(members), collisionVertId, time)

\* the new vertex of a group, m3 the graph with the group's edges frozen
\* (lines 772-773)
AddCollapseVertex(g, group, collisionPt, collisionVertId, bestCollapseTime, m3) ==
    [g EXCEPT !.collapseGroupInfos[group + 1].newVertex = Len(m3.vertices),
              !.m = [m3 EXCEPT !.vertices =
                        Append(@, Vertex(collisionPt, collisionVertId,
                                         bestCollapseTime, Zero2))]]

\* the group collapses to the Steiner vertex a just added for it (lines
\* 757-773)
CollapseAtSteinerVertex(g, bestCollapse, bestCollapseTime, group, members, collisionPt, a) ==
    AddCollapseVertex(g, group, collisionPt, SteinerId(a.id), bestCollapseTime,
        ConnectGroup(a.m, bestCollapse, members, SteinerId(a.id), bestCollapseTime))

\* the collision point of a group, with the two validations of it (lines
\* 735-757)
CollapseAtPoint(g, bestCollapse, bestCollapseTime, group, members, collisionPt) ==
    LET m == g.m
        ends(c) == LET seg == CollapsingEdge(m, bestCollapse, c)
                   IN  <<At(m.vertices, seg.head), At(m.vertices, seg.tail)>>
        m1 == Check(m, \A k \in 1..Len(members) :
                            ~IsFrozen(ends(members[k])[1]) /\ ~IsFrozen(ends(members[k])[2]),
                    "collapsing_not_frozen")
        m2 == Check(m1, \A k \in 1..Len(members) : \A j \in 1..2 :
                            Equivalent2(PositionAtTime(ends(members[k])[j], bestCollapseTime),
                                        collisionPt, SeparationTolerance),
                    "collapse_point_close")
    IN  CollapseAtSteinerVertex(g, bestCollapse, bestCollapseTime, group, members, collisionPt,
            AddSteinerVertex(m2, Expand(collisionPt, bestCollapseTime)))

\* one collapse group becomes one new vertex (lines 729-774)
CollapseGroupVertex(g, bestCollapse, bestCollapseTime, group) ==
    LET members == SelectSeq([c \in 1..Len(bestCollapse) |-> c],
                             LAMBDA c : g.collapseGroups[c] = group)
    IN  CollapseAtPoint(g, bestCollapse, bestCollapseTime, group, members,
            VScale(SumEnds(g.m, bestCollapse, members, bestCollapseTime),
                   Rat(1, 2 * Len(members))))

RECURSIVE CollapseGroupVerticesFrom(_, _, _, _)
CollapseGroupVerticesFrom(g, bestCollapse, bestCollapseTime, group) ==
    IF group >= Len(g.collapseGroupInfos) THEN g
    ELSE CollapseGroupVerticesFrom(
             CollapseGroupVertex(g, bestCollapse, bestCollapseTime, group),
             bestCollapse, bestCollapseTime, group + 1)

Swap(s, i, j) == [s EXCEPT ![i] = s[j], ![j] = s[i]]

\* "shifting them to the end" (lines 779-786): k counts bestCollapse from its
\* end, r is the 1-based slot the k-th swaps into
RECURSIVE SwapToEnd(_, _, _)
SwapToEnd(edges, bestCollapse, k) ==
    IF k > Len(bestCollapse) THEN edges
    ELSE SwapToEnd(Swap(edges, Len(edges) - k + 1,
                        bestCollapse[Len(bestCollapse) - k + 1].edge + 1),
                   bestCollapse, k + 1)

\* the collapsed edges shifted to the end, and not erased
RemoveCollapsedEdgesKeepingAll(edges, bestCollapse) == SwapToEnd(edges, bestCollapse, 1)

\* the erase without the shift: the last edges of the list go
RemoveLastEdges(edges, bestCollapse) ==
    SubSeq(edges, 1, Len(edges) - Len(bestCollapse))

RemoveCollapsedEdges(edges, bestCollapse) ==
    SubSeq(SwapToEnd(edges, bestCollapse, 1), 1, Len(edges) - Len(bestCollapse))

\* the velocity of the new vertex of a group (lines 801-803)
SetVelocity(m, vertex, vel) ==
    [CheckVelocity(m, vel) EXCEPT !.vertices[vertex + 1].velocity = vel.vel]

\* the edges to either side of a group left as they are
RelinkGroupSkipped(m, group) == m

\* the edges to either side of a group are joined at its new vertex (792-804)
RelinkGroup(m, group) ==
    LET tail == FindInAndOut(m.wavefrontEdges, group.tail)
        head == FindInAndOut(m.wavefrontEdges, group.head)
        m0 == Check(Check(m, ~tail.fail /\ ~head.fail, "find_in_and_out"),
                    tail.first # NoIndex /\ head.second # NoIndex, "group_neighbours")
        edges == [[m.wavefrontEdges EXCEPT ![tail.first + 1].head = group.newVertex]
                     EXCEPT ![head.second + 1].tail = group.newVertex]
        new == At(m.vertices, group.newVertex)
        calcTime == new.initialTime
        v0 == PositionAtTime(At(m.vertices, At(edges, tail.first).tail), calcTime)
        v2 == PositionAtTime(At(m.vertices, At(edges, head.second).head), calcTime)
    IN  IF group.head = group.tail THEN m
        ELSE IF tail.first = NoIndex \/ head.second = NoIndex
        THEN Undefined(m0, TRUE, "group_neighbour_null")
        ELSE SetVelocity([m0 EXCEPT !.wavefrontEdges = edges], group.newVertex,
                         CalculateVertexVelocity(v0, new.position, v2))

RECURSIVE RelinkGroupsFrom(_, _, _)
RelinkGroupsFrom(m, infos, k) ==
    IF k > Len(infos) \/ m.ub # "" \/ m.inexact THEN m
    ELSE RelinkGroupsFrom(RelinkGroup(m, infos[k]), infos, k + 1)

\* the same, and the motorcycles whose head the collapse froze are erased
RelinkCollapseGroupsRetiring(g, bestCollapse) ==
    [g EXCEPT !.m = [RelinkGroupsFrom(
                         [@ EXCEPT !.wavefrontEdges = RemoveCollapsedEdges(@, bestCollapse)],
                         g.collapseGroupInfos, 1)
                     EXCEPT !.motorcycleSegments =
                         SelectSeq(@, LAMBDA x : At(g.m.vertices, x.head).velocity # Zero2)]]

\* the collapsed edges are removed and the groups relinked (lines 776-804)
RelinkCollapseGroups(g, bestCollapse) ==
    [g EXCEPT !.m = RelinkGroupsFrom(
                        [@ EXCEPT !.wavefrontEdges = RemoveCollapsedEdges(@, bestCollapse)],
                        g.collapseGroupInfos, 1)]

\* the collapse branch of the event loop (lines 686-804); [m, collapseGroups,
\* collapseGroupInfos]
ProcessCollapse(m, bestCollapse, bestCollapseTime) ==
    RelinkCollapseGroups(
        CollapseGroupVerticesFrom(
            CollapseGroupsFrom(
                [m |-> m, collapseGroups |-> [c \in 1..Len(bestCollapse) |-> NoIndex],
                 collapseGroupInfos |-> <<>>, searching |-> NoIndex],
                bestCollapse, 1),
            bestCollapse, bestCollapseTime, 0),
        bestCollapse)

\* ------------------------------------------------------- WriteWavefront
ClosestPointOnLine2D(rayStart, rayEnd, testPt) ==
    LET o == VSub(testPt, rayStart)
        l == VSub(rayEnd, rayStart)
    IN  RDiv(Dot(o, l), MagnitudeSquared(l))

LinearInterpolate(a, b, alpha) == VAdd(VScale(VSub(b, a), alpha), a)

DoColinearLinesIntersect(AStart, AEnd, BStart, BEnd) ==
    LET closestBStart == ClosestPointOnLine2D(AStart, AEnd, BStart)
        closestBEnd == ClosestPointOnLine2D(AStart, AEnd, BEnd)
    IN  \/ RGt(closestBStart, Epsilon) /\ RGt(closestBStart, RSub(R(1), Epsilon))
        \/ RGt(closestBEnd, Epsilon) /\ RGt(closestBEnd, RSub(R(1), Epsilon))
        \/ Equivalent2(AStart, BStart, Epsilon) /\ Equivalent2(AEnd, BEnd, Epsilon)
        \/ Equivalent2(AEnd, BStart, Epsilon) /\ Equivalent2(AStart, BEnd, Epsilon)

\* the segment of edge i between the Steiner vertices v0 and v1.id, unless the
\* two are one vertex (lines 873-875)
AddSegmentToTest(w, i, v0, v1) ==
    [w EXCEPT !.m = v1.m,
              !.segmentsToTest =
                  IF v0 # v1.id THEN Append(@, Segment(v0, v1.id, i.leftFace, i.rightFace))
                  ELSE @]

\* the segment of edge i from the Steiner vertex v0 just added to B (lines
\* 872-875)
AddSegmentFrom(w, i, v0, B) == AddSegmentToTest(w, i, v0.id, AddSteinerVertex(v0.m, B))

\* the segments of the wavefront at the given time (lines 869-876); w is a
\* record [m, seg, filteredSegments, segmentsToTest, filterOutSeg], the top of
\* the stack segmentsToTest is its last element
RECURSIVE WavefrontSegmentsFrom(_, _, _)
WavefrontSegmentsFrom(w, time, e) ==
    IF e >= Len(w.m.wavefrontEdges) THEN w
    ELSE LET i == At(w.m.wavefrontEdges, e)
         IN  WavefrontSegmentsFrom(
                 AddSegmentFrom(w, i,
                     AddSteinerVertex(w.m, ClampedPositionAtTime(At(w.m.vertices, i.head), time)),
                     ClampedPositionAtTime(At(w.m.vertices, i.tail), time)),
                 time, e + 1)

\* the split of two overlapping segments into three (lines 945-987)
SplitSegments(t, j, closestC, closestD) ==
    LET seg == t.seg
        i2 == t.filteredSegments[j]
        \* Segment newSeg = {head, tail} leaves the faces value-initialised
        New(head, tail) == Segment(head, tail, 0, 0)
        r == IF RLt(closestC, R(0))
             THEN [newSeg |-> IF RGt(closestD, R(1)) THEN New(seg.tail, i2.tail)
                              ELSE New(i2.tail, seg.tail),
                   seg |-> IF RGt(closestD, R(1)) THEN seg ELSE [seg EXCEPT !.tail = i2.tail],
                   i2 |-> [i2 EXCEPT !.tail = seg.head]]
             ELSE IF RLt(closestD, R(0))
             THEN [newSeg |-> IF RGt(closestC, R(1)) THEN New(seg.tail, i2.head)
                              ELSE New(i2.head, seg.tail),
                   seg |-> IF RGt(closestC, R(1)) THEN seg ELSE [seg EXCEPT !.tail = i2.head],
                   i2 |-> [i2 EXCEPT !.head = seg.head]]
             ELSE IF RLt(closestC, closestD)
             THEN [newSeg |-> IF RGt(closestD, R(1)) THEN New(seg.tail, i2.tail)
                              ELSE New(i2.tail, seg.tail),
                   seg |-> [seg EXCEPT !.tail = i2.head],
                   i2 |-> i2]
             ELSE [newSeg |-> IF RGt(closestC, R(1)) THEN New(seg.tail, i2.head)
                              ELSE New(i2.head, seg.tail),
                   seg |-> [seg EXCEPT !.tail = i2.tail],
                   i2 |-> i2]
        P(v) == Truncate(At(t.m.steinerVertices, v))
        Apart(x, y) == ~DoColinearLinesIntersect(P(x.head), P(x.tail), P(y.head), P(y.tail))
    IN  [t EXCEPT !.m = Check(@, /\ Apart(r.newSeg, r.seg)
                                 /\ Apart(r.newSeg, r.i2)
                                 /\ Apart(r.i2, r.seg)
                                 /\ r.newSeg.head # r.newSeg.tail
                                 /\ r.i2.head # r.i2.tail
                                 /\ r.seg.head # r.seg.tail,
                              "wavefront_split"),
                  !.seg = r.seg,
                  !.filteredSegments[j] = r.i2,
                  !.segmentsToTest = Append(@, r.newSeg)]

\* seg against the filtered segment j (lines 889-991)
CompareSegments(t, j) ==
    LET seg == t.seg
        i2 == t.filteredSegments[j]
        P(v) == Truncate(At(t.m.steinerVertices, v))
        A == P(seg.head)
        B == P(seg.tail)
        C == P(i2.head)
        D == P(i2.tail)
        closestC == ClosestPointOnLine2D(A, B, C)
        closestD == ClosestPointOnLine2D(A, B, D)
        OnLine(closest, X) ==
            /\ RGt(closest, R(0))
            /\ RLt(closest, R(1))
            /\ RLt(MagnitudeSquared(VSub(LinearInterpolate(A, B, closest), X)), Epsilon)
        m0 == RDiv(RSub(B[2], A[2]), RSub(B[1], A[1]))
        m1 == RDiv(RSub(D[2], C[2]), RSub(D[1], C[1]))
        Fill(own, other) == IF own = NoFace THEN other ELSE own
    IN  IF i2.head = seg.head /\ i2.tail = seg.tail
        THEN [t EXCEPT !.filterOutSeg = TRUE,
                       !.filteredSegments[j].leftFace = Fill(@, seg.leftFace),
                       !.filteredSegments[j].rightFace = Fill(@, seg.rightFace)]
        ELSE IF i2.head = seg.tail /\ i2.tail = seg.head
        THEN [t EXCEPT !.filterOutSeg = TRUE,
                       !.filteredSegments[j].leftFace = Fill(@, seg.rightFace),
                       !.filteredSegments[j].rightFace = Fill(@, seg.leftFace)]
        ELSE IF ~OnLine(closestC, C) /\ ~OnLine(closestD, D) THEN t
        ELSE IF ~Equivalent(m0, m1, Epsilon) THEN t
        ELSE IF i2.head = seg.head
        THEN IF RLt(closestD, R(1)) THEN [t EXCEPT !.seg.head = i2.tail]
             ELSE [t EXCEPT !.filteredSegments[j].head = seg.tail]
        ELSE IF i2.head = seg.tail
        THEN IF RGt(closestD, R(0)) THEN [t EXCEPT !.seg.tail = i2.tail]
             ELSE [t EXCEPT !.filteredSegments[j].head = seg.head]
        ELSE IF i2.tail = seg.head
        THEN IF RLt(closestC, R(1)) THEN [t EXCEPT !.seg.head = i2.head]
             ELSE [t EXCEPT !.filteredSegments[j].tail = seg.tail]
        ELSE IF i2.tail = seg.tail
        THEN IF RGt(closestC, R(0)) THEN [t EXCEPT !.seg.tail = i2.head]
             ELSE [t EXCEPT !.filteredSegments[j].tail = seg.head]
        ELSE SplitSegments(t, j, closestC, closestD)

RECURSIVE CompareSegmentsFrom(_, _)
CompareSegmentsFrom(t, j) ==
    IF j > Len(t.filteredSegments) \/ t.filterOutSeg THEN t
    ELSE CompareSegmentsFrom(CompareSegments(t, j), j + 1)

\* "if (!filterOutSeg) filteredSegments.push_back(seg)" (lines 994-995)
KeepSegment(t) ==
    IF t.filterOutSeg THEN t ELSE [t EXCEPT !.filteredSegments = Append(@, t.seg)]

\* the top of the stack is tested and stays on the stack
TestSegmentKeepingTop(t) ==
    KeepSegment(CompareSegmentsFrom(
        [t EXCEPT !.seg = t.segmentsToTest[Len(t.segmentsToTest)],
                  !.filterOutSeg = FALSE], 1))

\* one pass of the worklist loop: the top of the stack is popped, compared
\* with the filtered segments and kept or dropped (lines 879-995)
TestSegment(t) ==
    KeepSegment(CompareSegmentsFrom(
        [t EXCEPT !.seg = t.segmentsToTest[Len(t.segmentsToTest)],
                  !.segmentsToTest = SubSeq(@, 1, Len(@) - 1),
                  !.filterOutSeg = FALSE], 1))

\* the worklist of segments to test (lines 878-996)
RECURSIVE FilterSegments(_)
FilterSegments(t) ==
    IF t.segmentsToTest = <<>> THEN t
    ELSE FilterSegments(TestSegment(t))

\* the filtered segments become Wavefront edges (lines 999-1002)
RECURSIVE EmitSegments(_, _, _)
EmitSegments(m, filteredSegments, k) ==
    IF k > Len(filteredSegments) \/ m.ub # "" THEN m
    ELSE LET seg == filteredSegments[k]
         IN  EmitSegments(AddEdge(Check(m, seg.head # seg.tail, "wavefront_segment"),
                                  SteinerId(seg.head), SteinerId(seg.tail),
                                  seg.leftFace, seg.rightFace, "Wavefront"),
                          filteredSegments, k + 1)

\* the path of one live vertex up to the given time (line 1009)
TracePath(m, v, time) ==
    LET a == AddSteinerVertex(m, ClampedPositionAtTime(At(m.vertices, v), time))
    IN  AddEdgeForVertexPath(a.m, v, SteinerId(a.id))

\* "the traced out path of each vertex" (lines 1005-1011)
RECURSIVE TracePathsFrom(_, _, _)
TracePathsFrom(m, time, e) ==
    IF e >= Len(m.wavefrontEdges) THEN m
    ELSE LET seg == At(m.wavefrontEdges, e)
         IN  TracePathsFrom(TracePath(TracePath(m, seg.head, time), seg.tail, time),
                            time, e + 1)

\* the filtered segments and the vertex paths are written (lines 999-1011)
WriteSegmentsAndPaths(t, time) ==
    TracePathsFrom(EmitSegments(t.m, t.filteredSegments, 1), time, 0)

WriteWavefront(m, time) ==
    WriteSegmentsAndPaths(
        FilterSegments(
            WavefrontSegmentsFrom(
                [m |-> m, segmentsToTest |-> <<>>, filteredSegments |-> <<>>,
                 filterOutSeg |-> FALSE, seg |-> Segment(0, 0, NoFace, NoFace)],
                time, 0)),
        time)

\* ------------------------------------------------- WavefrontAsVertexLoops
Member(x, s) == \E i \in 1..Len(s) : s[i] = x

\* the inner loop of AsVertexLoopsOrdered (lines 1059-1075); l is a record
\* [pool, workingLoop, result, fail, ub, inexact]
RECURSIVE CloseLoop(_)
CloseLoop(l) ==
    LET searching == l.workingLoop[Len(l.workingLoop)]
        hits == {i \in 1..Len(l.pool) : l.pool[i][1] = searching}
        hit == MaxOf(hits)
        l1 == Check(l, l.pool # <<>>, "open_segments")
        l2 == Check(l1, Cardinality(hits) <= 1, "junction")
        l3 == Check(l2, hits # {}, "hit_found")
        newVert == l.pool[hit][2]
        l4 == [l3 EXCEPT !.pool = RemoveAt(@, hit - 1)]
    IN  IF hits = {} THEN Undefined(l3, TRUE, "hit_at_end_of_pool")
        ELSE IF Member(newVert, l.workingLoop) THEN l4
        ELSE CloseLoop([l4 EXCEPT !.workingLoop = Append(@, newVert)])

RECURSIVE LoopsFrom(_)
LoopsFrom(l) ==
    IF l.pool = <<>> \/ l.ub # "" THEN l
    ELSE LET i == l.pool[Len(l.pool)]
             l1 == CloseLoop([l EXCEPT !.workingLoop = <<i[1], i[2]>>,
                                       !.pool = SubSeq(@, 1, Len(@) - 1)])
         IN  LoopsFrom([l1 EXCEPT !.result = Append(@, l1.workingLoop)])

\* the segments followed from their second vertex to their first
AsVertexLoopsOrderedBackwards(m, segments) ==
    LoopsFrom([pool |-> [k \in 1..Len(segments) |-> <<segments[k][2], segments[k][1]>>],
               workingLoop |-> <<>>, result |-> <<>>,
               fail |-> m.fail, ub |-> m.ub, inexact |-> m.inexact])

AsVertexLoopsOrdered(m, segments) ==
    LoopsFrom([pool |-> segments, workingLoop |-> <<>>, result |-> <<>>,
               fail |-> m.fail, ub |-> m.ub, inexact |-> m.inexact])

RECURSIVE Concat(_)
Concat(ss) == IF ss = <<>> THEN <<>> ELSE Head(ss) \o Concat(Tail(ss))

WavefrontAsVertexLoops(m) ==
    LET soup(f) == [k \in 1..Len(f) |-> <<f[k].head, f[k].tail>>]
        wavefront(f) == SelectSeq(f, LAMBDA e : e.type = "Wavefront")
        segmentSoup == Concat([i \in 1..Len(m.faces) |-> soup(wavefront(m.faces[i]))])
    IN  AsVertexLoopsOrdered(m, segmentSoup)

\* ------------------------------------------------------------ the input
Pt(x, y) == <<R(x), R(y)>>

\* A polygon of one or two vertical strips [0, w1] x [lo1, hi1] and
\* [w1, w1 + w2] x [lo2, hi2] (w2 = 0: the first strip alone), counter-clockwise
\* from the lower left corner of the first strip, without colinear vertices.
StripPolygon(w1, lo1, hi1, w2, lo2, hi2) ==
    IF w2 = 0 THEN <<Pt(0, lo1), Pt(w1, lo1), Pt(w1, hi1), Pt(0, hi1)>>
    ELSE <<Pt(0, lo1)>>
         \o (IF lo2 # lo1 THEN <<Pt(w1, lo1), Pt(w1, lo2)>> ELSE <<>>)
         \o <<Pt(w1 + w2, lo2), Pt(w1 + w2, hi2)>>
         \o (IF hi2 # hi1 THEN <<Pt(w1, hi2), Pt(w1, hi1)>> ELSE <<>>)
         \o <<Pt(0, hi1)>>

\* the right triangle with sides 3, 4 and 5: the normal of its hypotenuse is
\* rational
RightTriangle == <<Pt(0, 0), Pt(4, 0), Pt(0, 3)>>

InputLoops ==
    {RightTriangle}
    \cup
    {StripPolygon(w1, lo1, hi1, 0, lo1, hi1) : w1 \in 1..MaxW, lo1 \in {0}, hi1 \in 1..MaxH}
    \cup
    {StripPolygon(p[1], p[2], p[3], p[4], p[5], p[6]) :
        p \in {q \in (1..MaxW) \X (0..MaxH) \X (0..MaxH) \X (1..MaxW) \X (0..MaxH) \X (0..MaxH) :
                 /\ q[2] < q[3] /\ q[5] < q[6]
                 /\ (q[2] = 0 \/ q[5] = 0)
                 /\ (IF q[2] > q[5] THEN q[2] ELSE q[5]) < (IF q[3] < q[6] THEN q[3] ELSE q[6])}}

MaxTimes == {Rat(k, 2) : k \in 0..MaxTimeHalves} \cup {MaxPrim}

\* ------------------------------------------------------------ the state
VARIABLES
    boundaryPoints,     \* the input loop (Graph::_boundaryPoints)
    maxTime,            \* CalculateSkeleton's argument
    debugBuild,         \* TRUE: assert() and the _DEBUG blocks are compiled in
    pc,                 \* "start", "scan", "event", "done", "loops": where the run
                        \* stands; "assert", "ub", "inexact": how it stopped
    vertices, wavefrontEdges, motorcycleSegments,
    steinerVertices, faces, unplacedEdges,
    lastEventTime,
    bestCollapseTime, bestCollapse,                 \* the candidates found by the
    bestMotorcycleCrashTime, bestMotorcycleCrash,   \* scans of this iteration
    failed,             \* the assertions that failed (a debug build: the one that stopped it)
    events,             \* history of the processed events
    exit,               \* why the event loop was left, and the time of the flush
    loops               \* the result of WavefrontAsVertexLoops

vars == <<boundaryPoints, maxTime, debugBuild, pc, vertices, wavefrontEdges,
          motorcycleSegments, steinerVertices, faces, unplacedEdges,
          lastEventTime, bestCollapseTime, bestCollapse, bestMotorcycleCrashTime,
          bestMotorcycleCrash, failed, events, exit, loops>>

candidates == <<bestCollapseTime, bestCollapse, bestMotorcycleCrashTime, bestMotorcycleCrash>>

Init ==
    /\ boundaryPoints \in InputLoops
    /\ maxTime \in MaxTimes
    /\ debugBuild \in BOOLEAN
    /\ pc = "start"
    /\ vertices = <<>>
    /\ wavefrontEdges = <<>>
    /\ motorcycleSegments = <<>>
    /\ steinerVertices = <<>>
    /\ faces = <<>>
    /\ unplacedEdges = <<>>
    /\ lastEventTime = R(0)
    /\ bestCollapseTime = MaxPrim
    /\ bestCollapse = <<>>
    /\ bestMotorcycleCrashTime = MaxPrim
    /\ bestMotorcycleCrash = <<>>
    /\ failed = <<>>
    /\ events = <<>>
    /\ exit = [reason |-> "", time |-> R(0)]
    /\ loops = <<>>

\* the graph and the skeleton under construction, as one record
Current ==
    [vertices |-> vertices, wavefrontEdges |-> wavefrontEdges,
     motorcycleSegments |-> motorcycleSegments, steinerVertices |-> steinerVertices,
     faces |-> faces, unplacedEdges |-> unplacedEdges,
     fail |-> failed, ub |-> "", inexact |-> FALSE]

\* a step that computed m stops the run: a failed assertion in a debug build,
\* undefined behaviour, or a value outside the exact domain
Stops(m) == (debugBuild /\ m.fail # <<>>) \/ m.ub # "" \/ m.inexact

Halt(m) ==
    /\ pc' = IF debugBuild /\ m.fail # <<>> THEN "assert"
             ELSE IF m.ub # "" THEN "ub" ELSE "inexact"
    /\ failed' = IF debugBuild /\ m.fail # <<>> THEN <<m.fail[1]>> ELSE failed

\* the comparison with maxTime the wrong way round
PastMaxTimeInverted(time) == RLt(time, maxTime)

\* "if (bestMotorcycleCrashTime > maxTime) break", "if (bestCollapseTime >
\* maxTime) break"
PastMaxTime(time) == RGt(time, maxTime)

\* the iteration leaves the event loop
LoopExits ==
    IF bestMotorcycleCrash # <<>> THEN PastMaxTime(bestMotorcycleCrashTime)
    ELSE bestCollapse = <<>> \/ PastMaxTime(bestCollapseTime)

\* the flush at maxTime as it was passed in
FlushTimeUnadjusted == maxTime

\* the time of the flush of the wavefront
FlushTime == IF maxTime = MaxPrim THEN lastEventTime ELSE maxTime

\* a step that computed the graph m goes on to next, unless it stops the run
Step(m, next) ==
    IF Stops(m)
    THEN /\ Halt(m)
         /\ UNCHANGED <<vertices, wavefrontEdges, motorcycleSegments, steinerVertices,
                        faces, unplacedEdges>>
    ELSE /\ pc' = next
         /\ failed' = m.fail
         /\ vertices' = m.vertices
         /\ wavefrontEdges' = m.wavefrontEdges
         /\ motorcycleSegments' = m.motorcycleSegments
         /\ steinerVertices' = m.steinerVertices
         /\ faces' = m.faces
         /\ unplacedEdges' = m.unplacedEdges

\* BuildGraphFromVertexLoop, the first half of CalculateStraightSkeleton
Build ==
    /\ pc = "start"
    /\ Step(BuildGraphFromVertexLoop(boundaryPoints), "scan")
    /\ UNCHANGED <<boundaryPoints, maxTime, debugBuild, lastEventTime, candidates,
                   events, exit, loops>>

\* the scans found the candidates st
Scanned(st) ==
    IF Stops(st) THEN Halt(st) /\ UNCHANGED candidates
    ELSE /\ pc' = "event"
         /\ failed' = st.fail
         /\ bestCollapseTime' = st.bestCollapseTime
         /\ bestCollapse' = st.bestCollapse
         /\ bestMotorcycleCrashTime' = st.bestMotorcycleCrashTime
         /\ bestMotorcycleCrash' = st.bestMotorcycleCrash

\* the first half of an iteration of the event loop: "find the next event to
\* occur" (lines 480-536)
Scan ==
    /\ pc = "scan"
    /\ Scanned(FindNextEvent(Current, lastEventTime))
    /\ UNCHANGED <<boundaryPoints, maxTime, debugBuild, vertices, wavefrontEdges,
                   motorcycleSegments, steinerVertices, faces, unplacedEdges,
                   lastEventTime, events, exit, loops>>

\* the event just processed, between the graph before it and the graph after
Event(kind, time, groups) ==
    [kind |-> kind, time |-> time,
     edgesBefore |-> Len(wavefrontEdges), edgesAfter |-> Len(wavefrontEdges'),
     motorcyclesBefore |-> Len(motorcycleSegments),
     motorcyclesAfter |-> Len(motorcycleSegments'),
     groups |-> groups]

\* the iteration goes on to process a motorcycle crash (lines 540-678)
CrashStep ==
    /\ pc = "event"
    /\ bestMotorcycleCrash # <<>>
    /\ ~PastMaxTime(bestMotorcycleCrashTime)
    /\ LET crashes == SelectSeq(bestMotorcycleCrash,
                          LAMBDA c : RLt(c.event.time,
                                         RAdd(bestMotorcycleCrashTime, Epsilon)))
       IN  /\ Step(ProcessCrash(Current, crashes), "scan")
           /\ IF pc' = "scan"
              THEN /\ bestMotorcycleCrash' = crashes
                   /\ lastEventTime' = crashes[1].event.time
                   /\ events' = Append(events, Event("crash", crashes[1].event.time, <<>>))
              ELSE UNCHANGED <<bestMotorcycleCrash, lastEventTime, events>>
    /\ UNCHANGED <<boundaryPoints, maxTime, debugBuild, bestCollapseTime, bestCollapse,
                   bestMotorcycleCrashTime, exit, loops>>

\* the collapse of the groups g.collapseGroupInfos was processed
Collapsed(g) ==
    /\ Step(g.m, "scan")
    /\ IF pc' = "scan"
       THEN /\ lastEventTime' = bestCollapseTime
            /\ events' = Append(events, Event("collapse", bestCollapseTime,
                                              g.collapseGroupInfos))
       ELSE UNCHANGED <<lastEventTime, events>>

\* the iteration goes on to process the collapse of edges (lines 679-824)
CollapseStep ==
    /\ pc = "event"
    /\ bestMotorcycleCrash = <<>>
    /\ bestCollapse # <<>>
    /\ ~PastMaxTime(bestCollapseTime)
    /\ Collapsed(ProcessCollapse(Current, bestCollapse, bestCollapseTime))
    /\ UNCHANGED <<boundaryPoints, maxTime, debugBuild, candidates, exit, loops>>

\* the iteration leaves the event loop, and the wavefront is flushed (lines
\* 541, 680, 681 and 827-829)
Finish ==
    /\ pc = "event"
    /\ LoopExits
    /\ exit' = [reason |-> IF bestMotorcycleCrash # <<>> THEN "crash_after_maxTime"
                           ELSE IF bestCollapse = <<>> THEN "no_candidates"
                           ELSE "collapse_after_maxTime",
                time |-> FlushTime]
    /\ Step(WriteWavefront(Current, FlushTime), "done")
    /\ UNCHANGED <<boundaryPoints, maxTime, debugBuild, lastEventTime, candidates,
                   events, loops>>

\* the loops l.result were found
Looped(l) ==
    IF Stops(l) THEN Halt(l) /\ UNCHANGED loops
    ELSE /\ pc' = "loops"
         /\ failed' = l.fail
         /\ loops' = l.result

\* StraightSkeleton::WavefrontAsVertexLoops on the returned skeleton
AsLoops ==
    /\ pc = "done"
    /\ Looped(WavefrontAsVertexLoops(Current))
    /\ UNCHANGED <<boundaryPoints, maxTime, debugBuild, vertices, wavefrontEdges,
                   motorcycleSegments, steinerVertices, faces, unplacedEdges,
                   lastEventTime, candidates, events, exit>>

Next == Build \/ Scan \/ CrashStep \/ CollapseStep \/ Finish \/ AsLoops

Spec == Init /\ [][Next]_vars

\* ----------------------------------------- WavefrontAsVertexLoops by itself
\* the segments a skeleton can hold: AddEdge stores no edge from a vertex to
\* itself, and AddUnique no edge twice in one list
SoupSegments ==
    {p \in (0..(MaxSoupVertices - 1)) \X (0..(MaxSoupVertices - 1)) : p[1] # p[2]}

Soups ==
    UNION {{q \in [1..n -> SoupSegments] : \A i, j \in 1..n : i # j => q[i] # q[j]} :
              n \in 0..MaxSoupSegments}

\* a skeleton of one face that holds the Wavefront edges of a soup
SoupInit ==
    /\ boundaryPoints = <<>>
    /\ maxTime = MaxPrim
    /\ debugBuild \in BOOLEAN
    /\ pc = "done"
    /\ vertices = <<>>
    /\ wavefrontEdges = <<>>
    /\ motorcycleSegments = <<>>
    /\ steinerVertices = <<>>
    /\ \E q \in Soups :
          faces = <<[k \in 1..Len(q) |->
                       Edge(SteinerId(q[k][1]), SteinerId(q[k][2]), "Wavefront")]>>
    /\ unplacedEdges = <<>>
    /\ lastEventTime = R(0)
    /\ bestCollapseTime = MaxPrim
    /\ bestCollapse = <<>>
    /\ bestMotorcycleCrashTime = MaxPrim
    /\ bestMotorcycleCrash = <<>>
    /\ failed = <<>>
    /\ events = <<>>
    /\ exit = [reason |-> "", time |-> R(0)]
    /\ loops = <<>>

LoopsSpec == SoupInit /\ [][AsLoops]_vars

\* ------------------------------------------------- the scans by themselves
\* collapse times closer to each other than epsilon, closer than two epsilon,
\* and one that is negative
ScanStep == RDiv(RMul(R(3), Epsilon), R(5))
ScanTimes == {RMul(R(k), ScanStep) : k \in -1..MaxScanTicks}

\* the two ends of a live edge that CalculateCollapseTime finds to meet at the
\* time t: they start 2t apart and approach each other with speed 1 each
HeadMeetingAt(t) == Vertex(<<R(0), R(0)>>, NoId, R(0), <<R(1), R(0)>>)
TailMeetingAt(t) == Vertex(<<RMul(R(2), t), R(0)>>, NoId, R(0), <<R(-1), R(0)>>)

\* the event loop about to scan a list of live edges with the given collapse
\* times, in every order
ScanInit ==
    /\ boundaryPoints = <<>>
    /\ maxTime = MaxPrim
    /\ debugBuild \in BOOLEAN
    /\ pc = "scan"
    /\ \E n \in 0..MaxScanEdges : \E q \in [1..n -> ScanTimes] :
          /\ vertices = [i \in 1..(2 * n) |->
                            IF i % 2 = 1 THEN HeadMeetingAt(q[(i + 1) \div 2])
                            ELSE TailMeetingAt(q[i \div 2])]
          /\ wavefrontEdges = [e \in 1..n |-> Segment(2 * e - 2, 2 * e - 1, NoFace, NoFace)]
    /\ motorcycleSegments = <<>>
    /\ steinerVertices = <<>>
    /\ faces = <<>>
    /\ unplacedEdges = <<>>
    /\ lastEventTime = R(0)
    /\ bestCollapseTime = MaxPrim
    /\ bestCollapse = <<>>
    /\ bestMotorcycleCrashTime = MaxPrim
    /\ bestMotorcycleCrash = <<>>
    /\ failed = <<>>
    /\ events = <<>>
    /\ exit = [reason |-> "", time |-> R(0)]
    /\ loops = <<>>

ScanSpec == ScanInit /\ [][Scan]_vars

\* a motorcycle that runs along y = 2 from x = 0 into the live edge that comes
\* from x = 1: its head, its anchor, and the two ends of that edge, which meet
\* the motorcycle at the time 1/2 and each other at the time 1
CrashingGraph ==
    [vertices |-> <<Vertex(<<R(1), R(3)>>, NoId, R(0), <<R(-1), R(-1)>>),
                    Vertex(<<R(1), R(1)>>, NoId, R(0), <<R(-1), R(1)>>),
                    Vertex(<<R(0), R(2)>>, NoId, R(0), <<R(1), R(0)>>),
                    Vertex(<<R(0), R(2)>>, BoundaryId(0), R(0), Zero2)>>,
     wavefrontEdges |-> <<Segment(0, 1, NoFace, 0)>>,
     motorcycleSegments |-> <<Segment(2, 3, 0, 0)>>]

\* the collapse times up to MaxScanTicks steps before the crash, and the
\* values of maxTime around them
ExitCollapseTimes == {RSub(Rat(1, 2), RMul(R(k), ScanStep)) : k \in 0..MaxScanTicks}
ExitMaxTimes == ExitCollapseTimes \cup {Rat(k, 2) : k \in 0..MaxTimeHalves} \cup {MaxPrim}

\* the event loop about to scan that graph and up to two more live edges with
\* collapse times just before the crash
ExitInit ==
    /\ boundaryPoints = <<>>
    /\ maxTime \in ExitMaxTimes
    /\ debugBuild \in BOOLEAN
    /\ pc = "scan"
    /\ \E n \in 0..2 : \E q \in [1..n -> ExitCollapseTimes] :
          /\ vertices = CrashingGraph.vertices \o
                            [i \in 1..(2 * n) |->
                                IF i % 2 = 1 THEN HeadMeetingAt(q[(i + 1) \div 2])
                                ELSE TailMeetingAt(q[i \div 2])]
          /\ wavefrontEdges = CrashingGraph.wavefrontEdges \o
                                  [e \in 1..n |-> Segment(2 * e + 2, 2 * e + 3, NoFace, e)]
    /\ motorcycleSegments \in {<<>>, CrashingGraph.motorcycleSegments}
    /\ steinerVertices = <<>>
    /\ faces = <<>>
    /\ unplacedEdges = <<>>
    /\ lastEventTime = R(0)
    /\ bestCollapseTime = MaxPrim
    /\ bestCollapse = <<>>
    /\ bestMotorcycleCrashTime = MaxPrim
    /\ bestMotorcycleCrash = <<>>
    /\ failed = <<>>
    /\ events = <<>>
    /\ exit = [reason |-> "", time |-> R(0)]
    /\ loops = <<>>

ExitSpec == ExitInit /\ [][Scan]_vars

\* ---------------------------- WavefrontAsVertexLoops on soups of whole cycles
\* the soups in which every vertex is the head of one segment and the tail of
\* one: the segments <<o[k], f[o[k]]>> of a permutation f of a set of vertices
\* that keeps no vertex in place, in every order o
CycleSoupsOn(S) ==
    {[k \in 1..Cardinality(S) |-> <<o[k], f[o[k]]>>] :
        o \in {p \in [1..Cardinality(S) -> S] : \A i, j \in 1..Cardinality(S) : i # j => p[i] # p[j]},
        f \in {g \in [S -> S] : /\ \A v \in S : g[v] # v
                                /\ \A v, w \in S : v # w => g[v] # g[w]}}

CycleSoups == UNION {CycleSoupsOn(S) : S \in SUBSET (0..(MaxCycleVertices - 1))}

\* a skeleton of one face that holds the Wavefront edges of whole cycles
CycleInit ==
    /\ boundaryPoints = <<>>
    /\ maxTime = MaxPrim
    /\ debugBuild \in BOOLEAN
    /\ pc = "done"
    /\ vertices = <<>>
    /\ wavefrontEdges = <<>>
    /\ motorcycleSegments = <<>>
    /\ steinerVertices = <<>>
    /\ \E q \in CycleSoups :
          faces = <<[k \in 1..Len(q) |->
                       Edge(SteinerId(q[k][1]), SteinerId(q[k][2]), "Wavefront")]>>
    /\ unplacedEdges = <<>>
    /\ lastEventTime = R(0)
    /\ bestCollapseTime = MaxPrim
    /\ bestCollapse = <<>>
    /\ bestMotorcycleCrashTime = MaxPrim
    /\ bestMotorcycleCrash = <<>>
    /\ failed = <<>>
    /\ events = <<>>
    /\ exit = [reason |-> "", time |-> R(0)]
    /\ loops = <<>>

CyclesSpec == CycleInit /\ [][AsLoops]_vars

\* ------------------------------------------------- loops with two teeth
\* A bar [0, len] x [1, 2] with a tooth [lower, lower + 1] x [0, 1] below it and
\* a tooth [upper, upper + 1] x [2, 3] above it, counter-clockwise, without
\* colinear vertices
ToothedBar(len, lower, upper) ==
    <<Pt(0, 1), Pt(lower, 1), Pt(lower, 0), Pt(lower + 1, 0), Pt(lower + 1, 1), Pt(len, 1),
      Pt(len, 2), Pt(upper + 1, 2), Pt(upper + 1, 3), Pt(upper, 3), Pt(upper, 2), Pt(0, 2)>>

ToothedBars == {ToothedBar(MaxBar, a, b) : a, b \in 1..(MaxBar - 2)}

TeethInit ==
    /\ boundaryPoints \in ToothedBars
    /\ maxTime \in MaxTimes
    /\ debugBuild \in BOOLEAN
    /\ pc = "start"
    /\ vertices = <<>>
    /\ wavefrontEdges = <<>>
    /\ motorcycleSegments = <<>>
    /\ steinerVertices = <<>>
    /\ faces = <<>>
    /\ unplacedEdges = <<>>
    /\ lastEventTime = R(0)
    /\ bestCollapseTime = MaxPrim
    /\ bestCollapse = <<>>
    /\ bestMotorcycleCrashTime = MaxPrim
    /\ bestMotorcycleCrash = <<>>
    /\ failed = <<>>
    /\ events = <<>>
    /\ exit = [reason |-> "", time |-> R(0)]
    /\ loops = <<>>

TeethSpec == TeethInit /\ [][Next]_vars


\* ------------------------------------------------------------ the claims
LastEvent == events[Len(events)]
X(p) == p[1][1]
Y(p) == p[2][1]
\* twice the signed area of the triangle of three input points (integers)
Turn(z, o, t) == (X(o) - X(z)) * (Y(t) - Y(z)) - (X(t) - X(z)) * (Y(o) - Y(z))
\* the input vertices that wind Right
Reflex ==
    LET n == Len(boundaryPoints)
    IN  {v \in 0..(n - 1) : Turn(At(boundaryPoints, (v + n - 1) % n), At(boundaryPoints, v),
                                 At(boundaryPoints, (v + 1) % n)) < 0}
Convex == Reflex = {}
IsRotation(a, b) ==
    /\ Len(a) = Len(b)
    /\ \E k \in 0..(Len(a) - 1) : \A i \in 1..Len(a) : a[i] = b[((i - 1 + k) % Len(a)) + 1]
\* the position of a vertex of the returned skeleton
SkeletonPosition(id) ==
    IF id.boundary THEN At(boundaryPoints, id.index)
    ELSE Truncate(At(steinerVertices, id.index))
\* the edges of the returned skeleton of one type, each as the set of its ends
SkeletonEdges(type) ==
    UNION {{{faces[i][k].head, faces[i][k].tail} :
               k \in {j \in 1..Len(faces[i]) : faces[i][j].type = type}} : i \in 1..Len(faces)}
UnitSquare == <<Pt(0, 0), Pt(1, 0), Pt(1, 1), Pt(0, 1)>>

\* C1: within one run the times of the processed events form a non-decreasing
\* sequence: no event is processed at a time strictly less than that of the
\* event processed before it.
EventTimesNonDecreasing ==
    \A i \in 1..(Len(events) - 1) : RLe(events[i].time, events[i + 1].time)

\* C2: every collapse time and every crash time that the candidate scans
\* compute and that is not negative is >= lastEventTime: the two assertions of
\* the scans never fail.
ScanAssertionsNeverFail ==
    /\ "collapse_time_ge_last" \notin Range(failed)
    /\ "crash_time_ge_last" \notin Range(failed)

\* C3: for every input loop and every maxTime the event loop is left after
\* finitely many iterations. Every iteration but the last processes an event,
\* and the events processed so far, the live wavefront edges and twice the
\* motorcycle segments never add up to more than n + 2r for a loop of n
\* vertices, r of them reflex: no run processes more than n + 2r events.
EventLoopExits ==
    pc # "start" =>
        Len(events) + Len(wavefrontEdges) + 2 * Len(motorcycleSegments)
            <= Len(boundaryPoints) + 2 * Cardinality(Reflex)

EventLoopExited ==
    /\ pc = "done"
    /\ Len(events) >= 3
    /\ \E i \in 1..Len(events) : events[i].kind = "crash"
    /\ \E i \in 1..Len(events) : events[i].kind = "collapse"

\* C4 as stated: every processed event, collapse or crash, leaves strictly
\* fewer live wavefront edges than there were before it.
EveryEventReducesEdges ==
    \A i \in 1..Len(events) : events[i].edgesAfter < events[i].edgesBefore

\* C4, amended: every processed collapse leaves strictly fewer live wavefront
\* edges; a processed crash leaves at most one more live wavefront edge than
\* before, and strictly fewer motorcycle segments.
EveryEventReducesFront ==
    \A i \in 1..Len(events) :
        IF events[i].kind = "collapse"
        THEN events[i].edgesAfter < events[i].edgesBefore
        ELSE /\ events[i].edgesAfter <= events[i].edgesBefore + 1
             /\ events[i].motorcyclesAfter < events[i].motorcyclesBefore

CrashKeptEdgeCount ==
    /\ debugBuild
    /\ failed = <<>>
    /\ pc = "done"
    /\ \E i \in 1..Len(events) : /\ events[i].kind = "crash"
                                  /\ events[i].edgesAfter = events[i].edgesBefore
    /\ \E i \in 1..Len(events) : events[i].kind = "collapse"

ExhaustionAtInfinity ==
    (maxTime = MaxPrim /\ exit.reason # "") =>
        /\ exit.reason = "no_candidates"
        /\ bestCollapse = <<>>
        /\ bestMotorcycleCrash = <<>>
        /\ exit.time = IF events = <<>> THEN R(0) ELSE LastEvent.time

FlushedAtLastEvent ==
    /\ maxTime = MaxPrim
    /\ pc = "done"
    /\ Len(events) >= 2
    /\ exit.time = LastEvent.time
    /\ exit.time # R(0)

\* C7: for a convex input polygon (no vertex winds Right) the builder creates
\* no motorcycle segment, none is created later in the run, and every
\* processed event is an edge collapse.
ConvexOnlyCollapses ==
    (Convex /\ pc # "start") =>
        /\ motorcycleSegments = <<>>
        /\ bestMotorcycleCrash = <<>>
        /\ \A i \in 1..Len(events) : events[i].kind = "collapse"

ConvexCollapsed ==
    /\ Convex
    /\ pc = "done"
    /\ events # <<>>
    /\ wavefrontEdges = <<>>

\* C8: for a loop of n vertices the builder creates n wavefront edges, edge v
\* with head (v+1) mod n, tail v, no left face and right face v, and one
\* motorcycle segment for each vertex winding Right and for no other, from the
\* vertex to a new anchor vertex of zero velocity at the same position and
\* time 0: n + r vertices and r motorcycle segments for r reflex vertices, one
\* motorcycle for an L-shaped hexagon.
BuilderGraph ==
    (pc \in {"scan", "event"} /\ events = <<>>) =>
        LET n == Len(boundaryPoints)
            r == Cardinality(Reflex)
        IN  /\ Len(wavefrontEdges) = n
            /\ \A v \in 0..(n - 1) :
                  At(wavefrontEdges, v) =
                      [head |-> (v + 1) % n, tail |-> v, leftFace |-> NoFace, rightFace |-> v]
            /\ Len(vertices) = n + r
            /\ Len(motorcycleSegments) = r
            /\ {motorcycleSegments[k].head : k \in 1..r} = Reflex
            /\ {motorcycleSegments[k].tail : k \in 1..r} = n..(n + r - 1)
            /\ \A k \in 1..r :
                  LET anchor == At(vertices, motorcycleSegments[k].tail)
                  IN  /\ anchor.position = At(boundaryPoints, motorcycleSegments[k].head)
                      /\ anchor.velocity = Zero2
                      /\ anchor.initialTime = R(0)
            /\ (n = 6 => r = 1)

BuiltHexagon ==
    /\ pc = "scan"
    /\ events = <<>>
    /\ Len(boundaryPoints) = 6
    /\ Len(motorcycleSegments) = 1
    /\ Len(vertices) = 7

\* C9: for a simple counter-clockwise input polygon, CalculateStraightSkeleton
\* with maxInset = 0 followed by WavefrontAsVertexLoops completes and returns
\* the input polygon's vertices in the same cyclic order.
ClosureAtZeroInset ==
    maxTime = R(0) =>
        /\ pc \notin {"assert", "ub"}
        /\ pc = "loops" =>
              /\ Len(loops) = 1
              /\ IsRotation([i \in 1..Len(loops[1]) |-> SkeletonPosition(loops[1][i])],
                            boundaryPoints)

\* C10: for the unit square with maxInset = +infinity all four edges are
\* collapse candidates of one iteration at t = 1/2 and form a single closed
\* group; the result has one Steiner vertex (1/2, 1/2, 1/2), four distinct
\* VertexPath edges, one from each corner, ending at it, and no Wavefront
\* edge, and the live wavefront is empty when the loop is left.
UnitSquareCollapse ==
    (boundaryPoints = UnitSquare /\ maxTime = MaxPrim) =>
        /\ pc \notin {"assert", "ub", "inexact"}
        /\ Len(events) <= 1
        /\ (pc = "event" /\ events = <<>>) =>
              /\ bestMotorcycleCrash = <<>>
              /\ bestCollapse = [e \in 1..4 |-> [time |-> Rat(1, 2), edge |-> e - 1]]
        /\ events # <<>> =>
              /\ events[1].kind = "collapse"
              /\ events[1].time = Rat(1, 2)
              /\ events[1].edgesBefore = 4
              /\ Len(events[1].groups) = 1
              /\ events[1].groups[1].head = events[1].groups[1].tail
              /\ wavefrontEdges = <<>>
        /\ pc \in {"done", "loops"} =>
              /\ events # <<>>
              /\ exit.reason = "no_candidates"
              /\ steinerVertices = <<(<<Rat(1, 2), Rat(1, 2), Rat(1, 2)>>)>>
              /\ SkeletonEdges("VertexPath") = {{BoundaryId(v), SteinerId(0)} : v \in 0..3}
              /\ SkeletonEdges("Wavefront") = {}

UnitSquareCollapsed ==
    /\ boundaryPoints = UnitSquare
    /\ maxTime = MaxPrim
    /\ pc = "loops"
    /\ Len(steinerVertices) = 1
    /\ loops = <<>>

\* the Wavefront edges of the per-face edge lists, as WavefrontAsVertexLoops
\* collects them
WavefrontSoup ==
    Concat([i \in 1..Len(faces) |->
               LET f == SelectSeq(faces[i], LAMBDA e : e.type = "Wavefront")
               IN  [k \in 1..Len(f) |-> <<f[k].head, f[k].tail>>]])
LoopAssertions == {"open_segments", "junction", "hit_found"}

\* C11: in every skeleton returned by CalculateStraightSkeleton no vertex is
\* the head of two Wavefront edges of the per-face edge lists, and
\* WavefrontAsVertexLoops returns its loops on it: none of its assertions
\* fails and it does not run off the end of the pool.
WavefrontLoopsClosed ==
    /\ pc = "done" =>
          /\ \A i, j \in 1..Len(WavefrontSoup) :
                i # j => WavefrontSoup[i][1] # WavefrontSoup[j][1]
          /\ WavefrontAsVertexLoops(Current).fail = failed
          /\ WavefrontAsVertexLoops(Current).ub = ""
    /\ Range(failed) \cap LoopAssertions = {}

\* the pairs <<a, b>> with a chain of segments of the soup from a to b
RECURSIVE ChainsFrom(_)
ChainsFrom(pairs) ==
    LET next == pairs \cup {<<x[1][1], x[2][2]>> : x \in {y \in pairs \X pairs : y[1][2] = y[2][1]}}
    IN  IF next = pairs THEN pairs ELSE ChainsFrom(next)
Chains == ChainsFrom(Range(WavefrontSoup))
\* some segment of the soup is on no closed head-to-tail cycle
UnclosedChain ==
    \E k \in 1..Len(WavefrontSoup) : <<WavefrontSoup[k][2], WavefrontSoup[k][1]>> \notin Chains

\* C12: in a debug build WavefrontAsVertexLoops on a soup with an unclosed
\* chain ends in an assertion failure: it returns no list of loops.
UnclosedChainAsserts ==
    (debugBuild /\ UnclosedChain /\ pc # "done") => pc = "assert"

\* some moving motorcycle crashes before bestCollapseTime + epsilon
QualifyingCrash ==
    \E k \in 0..(Len(motorcycleSegments) - 1) :
        /\ ~Equivalent2(At(vertices, At(motorcycleSegments, k).head).velocity, Zero2, Epsilon)
        /\ RLt(CalculateCrashTime(Current, At(vertices, At(motorcycleSegments, k).head)).time,
               RAdd(bestCollapseTime, Epsilon))

TiedCrashesStopTheRun ==
    "single_crash" \in Range(failed) => (pc = "assert" /\ failed = <<"single_crash">>)

\* the point at the distance d from p along x
Nudged(p, d) == <<RAdd(p[1], d), p[2], p[3]>>
\* no two Steiner vertices are equivalent within epsilon
SteinerVerticesDistinct ==
    \A i, j \in 1..Len(steinerVertices) :
        i # j => ~Equivalent3(steinerVertices[i], steinerVertices[j], Epsilon)
\* AddSteinerVertex with the point p returns the index id and leaves the list as
\* it is
SteinerVertexFound(p, id) ==
    /\ AddSteinerVertex(Current, p).id = id
    /\ AddSteinerVertex(Current, p).m.steinerVertices = steinerVertices
\* a call with a point equivalent to an entry returns the entry, a call with a
\* point equivalent to none appends it
SteinerVertexCalls ==
    \A i \in 1..Len(steinerVertices) :
        /\ SteinerVertexFound(steinerVertices[i], i - 1)
        /\ SteinerVertexFound(Nudged(steinerVertices[i], RDiv(Epsilon, R(2))), i - 1)
        /\ AddSteinerVertex(Current, Nudged(steinerVertices[i], RMul(Epsilon, R(2)))).id
              = Len(steinerVertices)
        /\ AddSteinerVertex(Current, Nudged(steinerVertices[i], RMul(Epsilon, R(2)))).m.steinerVertices
              = Append(steinerVertices, Nudged(steinerVertices[i], RMul(Epsilon, R(2))))

\* C15: no two entries of the Steiner vertex list are equivalent within
\* epsilon; AddSteinerVertex with a point equivalent to an entry returns the
\* index of that entry and appends nothing; and no step of a run moves or
\* removes an entry: the list before the step is a prefix of the list after.
SteinerVerticesDeduplicated ==
    /\ [](SteinerVerticesDistinct /\ SteinerVertexCalls)
    /\ [][/\ Len(steinerVertices') >= Len(steinerVertices)
          /\ SubSeq(steinerVertices', 1, Len(steinerVertices)) = steinerVertices]_vars
\* the flush has asked for the Steiner vertex of a wavefront vertex twice, as
\* the head of one edge and as the tail of another, and the list holds it once
SteinerVertexShared ==
    /\ pc = "done"
    /\ Len(steinerVertices) >= 2
    /\ \E e1, e2 \in 1..Len(wavefrontEdges) :
          /\ e1 # e2
          /\ wavefrontEdges[e1].head = wavefrontEdges[e2].tail
          /\ Cardinality({i \in 1..Len(steinerVertices) :
                 steinerVertices[i] =
                     ClampedPositionAtTime(At(vertices, wavefrontEdges[e1].head), exit.time)}) = 1

\* the vertex has been through FreezeInPlace, the one place that sets the
\* skeleton vertex id ~0u
Frozen(v) == v.skeletonVertexId = NoId /\ v.velocity = Zero2
\* the vertices that the event of this step freezes: both ends of every
\* collapsing edge, or the head of the motorcycle that crashes
FrozenByEvent ==
    IF bestMotorcycleCrash # <<>>
    THEN {At(motorcycleSegments, bestMotorcycleCrash[1].motorcycle).head}
    ELSE {At(wavefrontEdges, bestCollapse[c].edge).head : c \in 1..Len(bestCollapse)}
         \cup {At(wavefrontEdges, bestCollapse[c].edge).tail : c \in 1..Len(bestCollapse)}

\* C16: the vertices that an event freezes have velocity zero and the skeleton
\* vertex id of FreezeInPlace after it, and no step of the run changes a field
\* of a vertex that is frozen.
FrozenVerticesStay ==
    [][/\ (pc = "event" /\ pc' = "scan") =>
             \A v \in FrozenByEvent : Frozen(At(vertices', v))
       /\ \A i \in 1..Len(vertices) :
             Frozen(vertices[i]) => (i <= Len(vertices') /\ vertices'[i] = vertices[i])]_vars
\* a vertex frozen by the first event is still there after a later one
FrozenAcrossEvents ==
    /\ pc = "scan"
    /\ Len(events) >= 2
    /\ RLt(events[1].time, LastEvent.time)
    /\ \E i \in 1..Len(vertices) :
          Frozen(vertices[i]) /\ vertices[i].initialTime = events[1].time

\* the live wavefront edges with the vertex v as their head, as their tail
EdgesInto(v) == {i \in 1..Len(wavefrontEdges) : wavefrontEdges[i].head = v}
EdgesOutOf(v) == {i \in 1..Len(wavefrontEdges) : wavefrontEdges[i].tail = v}
WavefrontVertices ==
    {wavefrontEdges[i].head : i \in 1..Len(wavefrontEdges)}
        \cup {wavefrontEdges[i].tail : i \in 1..Len(wavefrontEdges)}

\* C17: after the builder and after every processed event every vertex of a
\* live wavefront edge is the head of exactly one live edge and the tail of
\* exactly one, and the assertions of FindInAndOut have not failed.
WavefrontFormsLoops ==
    /\ pc \in {"scan", "event"} =>
          /\ \A v \in WavefrontVertices :
                 Cardinality(EdgesInto(v)) = 1 /\ Cardinality(EdgesOutOf(v)) = 1
          /\ \A v \in 0..(Len(vertices) - 1) :
                 /\ ~FindInAndOut(wavefrontEdges, v).fail
                 /\ FindInAndOut(wavefrontEdges, v).first = NoIndex
                       <=> FindInAndOut(wavefrontEdges, v).second = NoIndex
    /\ "find_in_and_out" \notin Range(failed)
\* a wavefront is left after a crash and a collapse that joined the edges to
\* either side of a chain at a new vertex
WavefrontRelinked ==
    /\ pc = "scan"
    /\ wavefrontEdges # <<>>
    /\ \E i \in 1..Len(events) : events[i].kind = "crash"
    /\ LastEvent.kind = "collapse"
    /\ \E k \in 1..Len(LastEvent.groups) :
          /\ LastEvent.groups[k].head # LastEvent.groups[k].tail
          /\ LastEvent.groups[k].newVertex \in WavefrontVertices

\* the collapse time of the live edge e
CollapseTimeOf(e) ==
    CalculateCollapseTime(At(vertices, At(wavefrontEdges, e).head),
                          At(vertices, At(wavefrontEdges, e).tail))
\* the live edges whose collapse time is not negative
Collapsing == {e \in 0..(Len(wavefrontEdges) - 1) : ~RLt(CollapseTimeOf(e), R(0))}

\* C18: after the collapse scan and its filter, whatever the order of the live
\* edges, bestCollapseTime is the least collapse time that is not negative, and
\* bestCollapse holds, once each and with its collapse time, exactly the live
\* edges with 0 <= t < bestCollapseTime + epsilon.
ScanFindsEarliestCollapses ==
    pc = "event" =>
        /\ \A e \in Collapsing : RLe(bestCollapseTime, CollapseTimeOf(e))
        /\ IF Collapsing = {} THEN bestCollapseTime = MaxPrim
           ELSE \E e \in Collapsing : bestCollapseTime = CollapseTimeOf(e)
        /\ {bestCollapse[c].edge : c \in 1..Len(bestCollapse)}
              = {e \in Collapsing : RLt(CollapseTimeOf(e), RAdd(bestCollapseTime, Epsilon))}
        /\ \A c, d \in 1..Len(bestCollapse) :
              c # d => bestCollapse[c].edge # bestCollapse[d].edge
        /\ \A c \in 1..Len(bestCollapse) :
              bestCollapse[c].time = CollapseTimeOf(bestCollapse[c].edge)
\* a chain of collapse times with gaps below epsilon: a candidate later than
\* the earliest, and an edge left out that is within epsilon of a candidate
CollapseTimesChained ==
    /\ pc = "event"
    /\ \E c \in 1..Len(bestCollapse) :
          /\ RLt(bestCollapseTime, bestCollapse[c].time)
          /\ \E e \in Collapsing :
                /\ \A d \in 1..Len(bestCollapse) : bestCollapse[d].edge # e
                /\ RLt(CollapseTimeOf(e), RAdd(bestCollapse[c].time, Epsilon))
                /\ e < bestCollapse[c].edge

\* the iteration is about to process the collapse of bestCollapse
CollapseIsNext ==
    /\ pc = "event"
    /\ bestMotorcycleCrash = <<>>
    /\ bestCollapse # <<>>
    /\ ~PastMaxTime(bestCollapseTime)
\* the separation of bestCollapse into groups, as the collapse will make it
Grouping ==
    CollapseGroupsFrom([m |-> Current,
                        collapseGroups |-> [c \in 1..Len(bestCollapse) |-> NoIndex],
                        collapseGroupInfos |-> <<>>, searching |-> NoIndex],
                       bestCollapse, 1)
Candidate(c) == At(wavefrontEdges, bestCollapse[c].edge)
\* the pairs of candidates joined tail-to-head, and those linked by a chain
Joined ==
    {p \in (1..Len(bestCollapse)) \X (1..Len(bestCollapse)) :
        \/ p[1] = p[2]
        \/ Candidate(p[1]).tail = Candidate(p[2]).head
        \/ Candidate(p[2]).tail = Candidate(p[1]).head}
Linked == ChainsFrom(Joined)
\* the heads of the candidates in M that are the tail of none of them, and the
\* tails that are the head of none
ChainHeads(M) == {Candidate(c).head : c \in M} \ {Candidate(c).tail : c \in M}
ChainTails(M) == {Candidate(c).tail : c \in M} \ {Candidate(c).head : c \in M}
GroupedRight(g, linked) ==
    /\ \A c \in 1..Len(bestCollapse) :
          g.collapseGroups[c] \in 0..(Len(g.collapseGroupInfos) - 1)
    /\ \A c, d \in 1..Len(bestCollapse) :
          (g.collapseGroups[c] = g.collapseGroups[d]) <=> (<<c, d>> \in linked)
    /\ \A k \in 1..Len(g.collapseGroupInfos) :
          LET M == {c \in 1..Len(bestCollapse) : g.collapseGroups[c] = k - 1}
              info == g.collapseGroupInfos[k]
          IN  /\ M # {}
              /\ IF ChainHeads(M) = {}
                 THEN /\ info.head = info.tail
                      /\ info.head \in {Candidate(c).head : c \in M}
                 ELSE /\ info.head # info.tail
                      /\ ChainHeads(M) = {info.head}
                      /\ ChainTails(M) = {info.tail}
    /\ "group_free" \notin Range(g.m.fail)

\* C19: the collapse candidates of an iteration are separated into groups so
\* that each candidate is in exactly one group, two candidates are in the same
\* group exactly when a chain of candidates joined tail-to-head links them,
\* the head and tail recorded for a group are the two ends of its chain (the
\* same vertex exactly when the chain is a closed loop), and the assertion
\* that a candidate reached by the search is unassigned does not fail.
CollapseGroupsAreChains ==
    /\ CollapseIsNext => GroupedRight(Grouping, Linked)
    /\ "group_free" \notin Range(failed)
\* the candidates make at least two groups, one of them an open chain of two
\* or more edges
OpenChainGrouped ==
    /\ CollapseIsNext
    /\ Len(Grouping.collapseGroupInfos) >= 2
    /\ \E k \in 1..Len(Grouping.collapseGroupInfos) :
          /\ Grouping.collapseGroupInfos[k].head # Grouping.collapseGroupInfos[k].tail
          /\ Cardinality({c \in 1..Len(bestCollapse) : Grouping.collapseGroups[c] = k - 1}) >= 2

\* the vertices at the ends of the candidate edges
Consumed ==
    {Candidate(c).head : c \in 1..Len(bestCollapse)}
        \cup {Candidate(c).tail : c \in 1..Len(bestCollapse)}
\* the live edges that are no candidates
Survivors ==
    {wavefrontEdges[i] : i \in (1..Len(wavefrontEdges))
                                \ {bestCollapse[c].edge + 1 : c \in 1..Len(bestCollapse)}}
\* the vertex that takes the place of v: the new vertex of the open chain whose
\* end ("head" or "tail") is v, if there is one
Replaced(groups, end, v) ==
    LET new == {groups[k].newVertex : k \in {j \in 1..Len(groups) :
                   groups[j].head # groups[j].tail /\ groups[j][end] = v}}
    IN  IF new = {} THEN v ELSE CHOOSE n \in new : TRUE
\* the surviving edge e after the collapse of the groups: an edge that arrives
\* at a chain's tail vertex, or leaves its head vertex, has the new vertex there
Spliced(groups, e) ==
    [e EXCEPT !.head = Replaced(groups, "tail", @), !.tail = Replaced(groups, "head", @)]
CollapseApplied(groups) ==
    /\ Len(wavefrontEdges') = Len(wavefrontEdges) - Len(bestCollapse)
    /\ Cardinality(Survivors) = Len(wavefrontEdges')
    /\ Range(wavefrontEdges') = {Spliced(groups, e) : e \in Survivors}
    /\ Cardinality(Range(wavefrontEdges')) = Len(wavefrontEdges')
    /\ \A v \in Consumed :
          /\ At(vertices', v).velocity = Zero2
          /\ At(vertices', v).initialTime = bestCollapseTime
    /\ \A j \in 1..Len(wavefrontEdges') :
          wavefrontEdges'[j].head \notin Consumed /\ wavefrontEdges'[j].tail \notin Consumed
    /\ \A k \in 1..Len(groups) :
          groups[k].head # groups[k].tail =>
              /\ groups[k].newVertex >= Len(vertices)
              /\ \E e \in Survivors :
                    e.head = groups[k].tail /\ Spliced(groups, e).head = groups[k].newVertex
              /\ \E e \in Survivors :
                    e.tail = groups[k].head /\ Spliced(groups, e).tail = groups[k].newVertex

\* C20: a processed collapse removes exactly the candidate edges from the live
\* list and keeps every other edge; both ends of every removed edge are frozen
\* at the collapse time; the edge that arrives at the tail vertex of an open
\* chain and the one that leaves its head vertex end in the new vertex of the
\* group; and no live edge has a vertex of a removed edge as its head or tail.
CollapseRemovesCandidates ==
    [][(CollapseIsNext /\ pc' = "scan") => CollapseApplied(events'[Len(events')].groups)]_vars
\* a collapse of two or more groups has left a wavefront that passes through
\* the new vertex of an open chain, whose old end vertex is frozen at that time
CollapseSpliced ==
    /\ pc = "scan"
    /\ events # <<>>
    /\ LastEvent.kind = "collapse"
    /\ Len(LastEvent.groups) >= 2
    /\ LastEvent.edgesAfter >= 3
    /\ \E k \in 1..Len(LastEvent.groups) :
          /\ LastEvent.groups[k].head # LastEvent.groups[k].tail
          /\ EdgesInto(LastEvent.groups[k].newVertex) # {}
          /\ EdgesOutOf(LastEvent.groups[k].newVertex) # {}
          /\ Frozen(At(vertices, LastEvent.groups[k].head))
          /\ At(vertices, LastEvent.groups[k].head).initialTime = LastEvent.time

\* the groups of a collapse whose chain is a closed loop, and the others
LoopGroups(groups) == {k \in 1..Len(groups) : groups[k].head = groups[k].tail}
OpenGroups(groups) == {k \in 1..Len(groups) : groups[k].head # groups[k].tail}

\* C21: a collapse group that is a whole closed loop gets no replacement
\* vertex: the vertex list grows by one vertex for every open chain only, and
\* no surviving edge is changed when every group is a closed loop.
ClosedLoopLeavesNoVertex ==
    [][(CollapseIsNext /\ pc' = "scan") =>
          /\ Len(vertices') = Len(vertices)
                                + Cardinality(OpenGroups(events'[Len(events')].groups))
          /\ OpenGroups(events'[Len(events')].groups) = {}
                => Range(wavefrontEdges') = Survivors]_vars

\* the crash of the motorcycle segment motor into the live edge crashSegment at
\* the time time has been processed
CrashApplied(k, motor, crashSegment, time) ==
    /\ Len(motorcycleSegments') = Len(motorcycleSegments) - 1
    /\ motorcycleSegments' = SubSeq(motorcycleSegments, 1, k) \o
                                 SubSeq(motorcycleSegments, k + 2, Len(motorcycleSegments))
    /\ motor \notin Range(motorcycleSegments')
    /\ \A j \in 1..Len(wavefrontEdges') :
          ~(wavefrontEdges'[j].head = crashSegment.head
               /\ wavefrontEdges'[j].tail = crashSegment.tail)
    /\ At(vertices', motor.head) =
          Vertex(PositionAtTime(At(vertices, motor.head), time), NoId, time, Zero2)
    /\ \A j \in 1..Len(wavefrontEdges') :
          wavefrontEdges'[j].head # motor.head /\ wavefrontEdges'[j].tail # motor.head
    /\ \E i \in 1..Len(steinerVertices') :
          /\ steinerVertices'[i] = Expand(PositionAtTime(At(vertices, motor.head), time), time)
          /\ \E f \in 1..Len(faces') : \E e \in 1..Len(faces'[f]) :
                /\ faces'[f][e].type = "VertexPath"
                /\ {faces'[f][e].head, faces'[f][e].tail}
                      = {SteinerId(i - 1), At(vertices, motor.tail).skeletonVertexId}

\* C22: a processed crash takes the crashed motorcycle, and nothing else, out
\* of the motorcycle list, leaves no live edge with the head and tail of the
\* edge crashed into, freezes the motorcycle's head at the crash point with the
\* crash time as its initial time, leaves no live edge at that vertex, and has
\* put a VertexPath edge between the Steiner vertex of the crash and the
\* skeleton vertex of the motorcycle's anchor into a face.
CrashRetiresMotorcycle ==
    [][(pc = "event" /\ bestMotorcycleCrash # <<>> /\ pc' = "scan") =>
          CrashApplied(bestMotorcycleCrash'[1].motorcycle,
                       At(motorcycleSegments, bestMotorcycleCrash'[1].motorcycle),
                       At(wavefrontEdges, bestMotorcycleCrash'[1].event.edgeSegment),
                       bestMotorcycleCrash'[1].event.time)]_vars
\* a crash was processed that left another motorcycle and a wavefront behind
CrashProcessed ==
    /\ pc = "scan"
    /\ events # <<>>
    /\ LastEvent.kind = "crash"
    /\ LastEvent.motorcyclesAfter = LastEvent.motorcyclesBefore - 1
    /\ motorcycleSegments # <<>>
    /\ wavefrontEdges # <<>>
    /\ \E i \in 1..Len(vertices) : Frozen(vertices[i]) /\ vertices[i].initialTime = LastEvent.time

\* the crash time of the motorcycle k
CrashTimeOf(k) ==
    CalculateCrashTime(Current, At(vertices, At(motorcycleSegments, k).head)).time
Moving == {k \in 0..(Len(motorcycleSegments) - 1) :
              ~Equivalent2(At(vertices, At(motorcycleSegments, k).head).velocity, Zero2, Epsilon)}

AtFlush ==
    WavefrontSegmentsFrom(
        [m |-> Current, segmentsToTest |-> <<>>, filteredSegments |-> <<>>,
         filterOutSeg |-> FALSE, seg |-> Segment(0, 0, NoFace, NoFace)],
        FlushTime, 0)

\* the same when it has run empty
Flushed == FilterSegments(AtFlush)

JoinSameVertices(a, b) ==
    \/ a.head = b.head /\ a.tail = b.tail
    \/ a.head = b.tail /\ a.tail = b.head

NoDuplicates(segments) ==
    \A i, j \in 1..Len(segments) : i # j => ~JoinSameVertices(segments[i], segments[j])

\* the segments of the live edges at the flush of the current state, as
\* WriteWavefront stacks them
Stacked == AtFlush.segmentsToTest

\* the accepted segment j after seg, which joins the same vertices, was
\* compared with it: seg is dropped, and only the undefined faces of j changed
MergedInto(t, j, seg) ==
    LET own == t.filteredSegments[j]
        r == CompareSegments([t EXCEPT !.seg = seg, !.filterOutSeg = FALSE], j)
        got == r.filteredSegments[j]
        same == own.head = seg.head
    IN  /\ r.filterOutSeg
        /\ got.head = own.head /\ got.tail = own.tail
        /\ got.leftFace = IF own.leftFace # NoFace THEN own.leftFace
                          ELSE IF same THEN seg.leftFace ELSE seg.rightFace
        /\ got.rightFace = IF own.rightFace # NoFace THEN own.rightFace
                           ELSE IF same THEN seg.rightFace ELSE seg.leftFace
        /\ \A k \in 1..Len(t.filteredSegments) :
               k # j => r.filteredSegments[k] = t.filteredSegments[k]

MergesFillUndefinedFaces(t, stacked) ==
    \A j \in 1..Len(t.filteredSegments) : \A i \in 1..Len(stacked) :
        JoinSameVertices(t.filteredSegments[j], stacked[i]) => MergedInto(t, j, stacked[i])

\* C24: the segments WriteWavefront accepts at the flush hold no two segments
\* between the same pair of Steiner vertices, in the same or in the reversed
\* direction; a segment that joins the vertices of an accepted one is dropped
\* and fills only the undefined faces of the accepted one
NoDuplicateWavefrontSegments ==
    (pc = "event" /\ LoopExits) =>
        /\ NoDuplicates(Flushed.filteredSegments)
        /\ MergesFillUndefinedFaces(Flushed, Stacked)

SameHeadAndTail(a, b) == a.head = b.head /\ a.tail = b.tail

\* the live edges with the head and the tail of the edge the next crash goes into
CrashEdges ==
    {j \in 1..Len(wavefrontEdges) :
        SameHeadAndTail(wavefrontEdges[j],
                        At(wavefrontEdges, bestMotorcycleCrash[1].event.edgeSegment))}

\* C25: no two live wavefront edges have the same (head, tail) pair, after the
\* builder and after every event, and the edge a crash goes into is the only
\* live edge with its head and tail
LiveEdgesDistinct ==
    /\ \A i, j \in 1..Len(wavefrontEdges) :
           i # j => ~SameHeadAndTail(wavefrontEdges[i], wavefrontEdges[j])
    /\ (pc = "event" /\ bestMotorcycleCrash # <<>>) => Cardinality(CrashEdges) = 1

\* a crash into one of several live edges is about to be processed after an
\* earlier event
CrashAfterEvent ==
    /\ pc = "event"
    /\ bestMotorcycleCrash # <<>>
    /\ ~LoopExits
    /\ events # <<>>
    /\ Len(wavefrontEdges) > 2

\* the segments of a soup in the one face of the skeleton
SoupOfFace == {<<faces[1][k].head, faces[1][k].tail>> : k \in 1..Len(faces[1])}

\* the vertex after position k of a loop, around the loop
After(loop, k) == loop[(k % Len(loop)) + 1]

\* the segments a loop runs along, its closing segment included
SegmentsAlong(loop) == {<<loop[k], After(loop, k)>> : k \in 1..Len(loop)}

LoopsAreTheCycles ==
    /\ \A i \in 1..Len(loops) :
          /\ Len(loops[i]) >= 2
          /\ \A k, l \in 1..Len(loops[i]) : k # l => loops[i][k] # loops[i][l]
          /\ SegmentsAlong(loops[i]) \subseteq SoupOfFace
    /\ \A i, j \in 1..Len(loops) : i # j => Range(loops[i]) \cap Range(loops[j]) = {}
    /\ UNION {SegmentsAlong(loops[i]) : i \in 1..Len(loops)} = SoupOfFace

\* C26: of a segment list that is a disjoint union of simple directed cycles
\* AsVertexLoopsOrdered returns one loop per cycle, each with the vertices of
\* its cycle once and from head to tail, every segment lies along exactly one
\* loop, and no assertion fails
CyclesBecomeLoops ==
    pc # "done" => (pc = "loops" /\ failed = <<>> /\ LoopsAreTheCycles)

\* two cycles were returned as two loops
TwoCyclesTwoLoops ==
    /\ pc = "loops"
    /\ Len(loops) = 2
    /\ Len(faces[1]) = MaxCycleVertices

\* C27: no vertex handed to AddSteinerVertex during CalculateSkeleton has the
\* time zero: the first assertion of AddSteinerVertex never fails
SteinerTimesNonZero == "steiner_time_nonzero" \notin Range(failed)

\* the point x lies on the segment from a to b, its ends included
LiesOn(a, b, x, closest) ==
    /\ RGe(closest, R(0))
    /\ RLe(closest, R(1))
    /\ RLt(MagnitudeSquared(VSub(LinearInterpolate(a, b, closest), x)), Epsilon)

\* the accepted segment seg is a piece of the stacked segment of a live edge
PieceOf(t, seg, live) ==
    LET P(v) == Truncate(At(t.m.steinerVertices, v))
    IN  /\ LiesOn(P(live.head), P(live.tail), P(seg.head),
                  ClosestPointOnLine2D(P(live.head), P(live.tail), P(seg.head)))
        /\ LiesOn(P(live.head), P(live.tail), P(seg.tail),
                  ClosestPointOnLine2D(P(live.head), P(live.tail), P(seg.tail)))

\* a face of seg is undefined or a face of a live edge seg is a piece of
FacesDerived(t, stacked, seg) ==
    \A face \in {seg.leftFace, seg.rightFace} :
        \/ face = NoFace
        \/ \E i \in 1..Len(stacked) :
              /\ PieceOf(t, seg, stacked[i])
              /\ face \in {stacked[i].leftFace, stacked[i].rightFace}

\* C28: every segment WriteWavefront accepts at the flush carries, on either
\* side, the undefined face or a face index of a live wavefront edge it is a
\* piece of
AcceptedFacesComeFromLiveEdges ==
    (pc = "event" /\ LoopExits) =>
        \A j \in 1..Len(Flushed.filteredSegments) :
            FacesDerived(Flushed, Stacked, Flushed.filteredSegments[j])

\* the motorcycles whose head stands still
Stopped ==
    {k \in 0..(Len(motorcycleSegments) - 1) :
        Equivalent2(At(vertices, At(motorcycleSegments, k).head).velocity, Zero2, Epsilon)}

\* the motorcycle list without its element k
WithoutMotorcycle(k) ==
    SubSeq(motorcycleSegments, 1, k) \o SubSeq(motorcycleSegments, k + 2, Len(motorcycleSegments))

\* C29: after the builder the motorcycle list changes only when a crash is
\* processed, which takes the crashed motorcycle out of it; a collapse leaves
\* it as it is, also when it freezes the head of a motorcycle, and a motorcycle
\* whose head stands still is never the motorcycle of the crash a scan finds
MotorcyclesLeaveOnlyByCrash ==
    /\ []((pc = "event" /\ bestMotorcycleCrash # <<>>) =>
             bestMotorcycleCrash[1].motorcycle \notin Stopped)
    /\ [][pc # "start" =>
             \/ motorcycleSegments' = motorcycleSegments
             \/ /\ pc = "event"
                /\ bestMotorcycleCrash # <<>>
                /\ events'[Len(events')].kind = "crash"
                /\ bestMotorcycleCrash'[1].motorcycle \notin Stopped
                /\ motorcycleSegments' = WithoutMotorcycle(bestMotorcycleCrash'[1].motorcycle)]_vars

\* a collapse has frozen the head of a motorcycle that is still in the list,
\* and the scan after it went past that motorcycle
StoppedMotorcycleKept ==
    /\ pc = "event"
    /\ events # <<>>
    /\ LastEvent.kind = "collapse"
    /\ LastEvent.motorcyclesAfter = LastEvent.motorcyclesBefore
    /\ \E k \in Stopped : Frozen(At(vertices, At(motorcycleSegments, k).head))

\* the passes of the worklist loop until the stack is empty, counted from n
\* and no further than limit + 1
RECURSIVE PopsWithin(_, _, _)
PopsWithin(t, n, limit) ==
    IF t.segmentsToTest = <<>> \/ n > limit THEN n
    ELSE PopsWithin(TestSegment(t), n + 1, limit)

\* one pop for each of k stacked segments and one remainder for each pair
WorklistBound(k) == k + (k * (k - 1)) \div 2

\* C30: the worklist of WriteWavefront runs empty at every flush: the stack of
\* the segments to test is empty after no more pops than there are segments
\* of live edges and pairs of them
WorklistRunsEmpty ==
    (pc = "event" /\ LoopExits) =>
        PopsWithin(AtFlush, 0, WorklistBound(Len(Stacked))) <= WorklistBound(Len(Stacked))

\* a flush at which a remainder was pushed back and an accepted segment cut
RemainderPushedAtFlush ==
    /\ pc = "event"
    /\ LoopExits
    /\ PopsWithin(AtFlush, 0, WorklistBound(Len(Stacked))) > Len(Stacked)
    /\ \E j \in 1..Len(Flushed.filteredSegments) :
           \A i \in 1..Len(Stacked) :
               ~JoinSameVertices(Flushed.filteredSegments[j], Stacked[i])


====
